---------------------------- MODULE Spec2Model ----------------------------
(***************************************************************************)
(* State-machine model of smartlingzd.py: the command-line tool that sends *)
(* Zendesk help-center items (articles, sections, categories) to Smartling *)
(* for translation and brings the translations back into Zendesk.          *)
(*                                                                         *)
(* The program is single-threaded.  One step of the model is one remote    *)
(* call together with the handling of its response, up to the point where  *)
(* the next remote call is about to be issued.  The two remote systems are *)
(* the environment: their answers follow from their stores, except that    *)
(* any call may fail with a server error, and the stores may be changed    *)
(* by other users between two calls of the program.                        *)
(***************************************************************************)
EXTENDS Integers, Sequences, FiniteSets, TLC

VARIABLES
    args,              \* parsed command line (main)
    locale_mapping,    \* the global dict, as its sequence of (key, value) items
    include_articles,  \* translate.cfg [include-articles]
    exclude_articles,  \* translate.cfg [exclude-articles]
    zdItems,           \* Zendesk: the source items
    zdTrans,           \* Zendesk: the stored translations
    zdAttachments,     \* Zendesk: the attachments of each article
    slFiles,           \* Smartling: the uploaded source files
    slTrans,           \* Smartling: the translated documents
    envSteps,          \* number of changes made by other users so far
    pc,                \* position of the program
    phase,             \* index in TypeOrder of the item type being handled
    outer,             \* rest of the outer loop of the current batch
    inner,             \* rest of the inner loop of the current batch
    filtered,          \* filtered_source_ids of a bulk retrieval
    cur,               \* arguments of the current single-item transfer
    data,              \* translation_data: the downloaded document
    translation,       \* the translation record built for Zendesk
    ulog,              \* Zendesk calls issued by the current upsert call
    warnings,          \* logging.warn records of the current fix_article_links call
    lastCall,          \* the most recent remote call and its response
    ncalls,            \* number of remote calls issued so far
    err,               \* the exception that ended the run, if any
    scan,              \* locals of get_completed_ids
    driver             \* the driver of a function that runs alone: calls left, results

progVars == <<pc, phase, outer, inner, filtered, cur, data, translation,
              ulog, warnings, lastCall, ncalls, err, scan, driver>>
cfgVars == <<args, locale_mapping, include_articles, exclude_articles>>
zdVars == <<zdItems, zdTrans, zdAttachments>>
slVars == <<slFiles, slTrans>>
vars == <<cfgVars, zdVars, slVars, envSteps, progVars>>

---------------------------------------------------------------------------
(* Bounds of the model *)

\* Item ids are 1..MaxId.
MaxId == 2
\* Number of changes other users may make to the stores during one run.
MaxEnvSteps == 1

---------------------------------------------------------------------------
(* Program constants *)

ZD_SOURCE_LOCALE == "en-us"
TYPE_CATEGORY == "category"
TYPE_SECTION == "section"
TYPE_ARTICLE == "article"

Types == {TYPE_CATEGORY, TYPE_SECTION, TYPE_ARTICLE}
\* main handles categories, then sections, then articles
TypeOrder == <<TYPE_CATEGORY, TYPE_SECTION, TYPE_ARTICLE>>
Ids == 1..MaxId
RetrievalTypes == {"published", "pseudo", "pending"}

\* Python's None, for the record-valued variables
None == [none |-> TRUE]

---------------------------------------------------------------------------
(* HTML bodies.  A body is the text of an article body, kept as what the   *)
(* code looks at: whether white space precedes the first tag, how the text *)
(* opens, and the links in it.                                             *)
(*   top = "div"     the text is <div>...</div>                            *)
(*   top = "divattr" the text is <div class="..">...</div>                 *)
(*   top = "DIV"     the text is <DIV>...</DIV>                            *)
(*   top = "p"       one top-level element that is not a div               *)
(*   top = "multi"   several top-level elements, no container              *)
(* A url is [abs, dirs, last]: dirs are the path segments that are         *)
(* followed by a slash, last is the final component, abs says that a slash *)
(* (or scheme and host) precedes the first segment.  A file name is        *)
(* stem [ "_" loc ] [ "." ext ].                                           *)

ExtLen(ext) ==
    CASE ext = "" -> 0
      [] ext = "js" -> 2
      [] ext = "ai" -> 2
      [] ext = "png" -> 3
      [] ext = "jpg" -> 3
      [] ext = "jpeg" -> 4
      [] OTHER -> 3

\* re.sub(r'_en-us\.(...)', '_' + locale + r'.\1', image_file_name)
LocaliseImageName(name, locale) ==
    IF name.loc = "en-us" /\ ExtLen(name.ext) >= 3
    THEN [name EXCEPT !.loc = locale]
    ELSE name

\* re.sub('/en-us/', '/' + locale + '/', url) on the directory segments:
\* matches do not overlap, so a segment whose leading slash closed the
\* previous match is not replaced.
RECURSIVE SubSegments(_, _, _, _)
SubSegments(dirs, i, slashBefore, locale) ==
    IF i > Len(dirs) THEN <<>>
    ELSE IF dirs[i] = ZD_SOURCE_LOCALE /\ slashBefore
         THEN <<locale>> \o SubSegments(dirs, i + 1, FALSE, locale)
         ELSE <<dirs[i]>> \o SubSegments(dirs, i + 1, TRUE, locale)

SubLocaleInUrl(url, locale) ==
    [url EXCEPT !.dirs = SubSegments(url.dirs, 1, url.abs, locale)]

\* fix_image_link: the attachments are searched in order, the last match wins
MatchingAttachments(name, article_attachments) ==
    {i \in 1..Len(article_attachments) : article_attachments[i].file_name = name}

fix_image_link(element, locale, article_attachments) ==
    LET new_image_file_name == LocaliseImageName(element.url.last, locale)
        hits == MatchingAttachments(new_image_file_name, article_attachments)
    IN  IF hits = {} THEN element
        ELSE LET j == CHOOSE k \in hits : \A m \in hits : m <= k
             IN  [element EXCEPT !.url = article_attachments[j].content_url]

\* fix_image_link's local variable found, after the loop
fix_image_link_found(element, locale, article_attachments) ==
    MatchingAttachments(LocaliseImageName(element.url.last, locale),
                        article_attachments) # {}

\* logging.warn('No %s version of image found for %s', locale, image_file_name)
ImageWarning(element, locale) == [locale |-> locale, image_file_name |-> element.url.last]

fix_anchor_link(element, locale) ==
    [element EXCEPT !.url = SubLocaleInUrl(element.url, locale)]

FixElement(element, locale, article_attachments) ==
    IF element.tag = "img" THEN fix_image_link(element, locale, article_attachments)
    ELSE IF element.tag = "a" THEN fix_anchor_link(element, locale)
    ELSE element

\* body.strip().lower().startswith('<div')
SurroundingDivInOrig(body) == body.top \in {"div", "divattr", "DIV"}

\* body.startswith('<div>') and body.endswith('</div>')
StartsAndEndsWithPlainDiv(body) == ~body.lead /\ body.top = "div"

\* lxml.html.fromstring followed by lxml.html.tostring: leading white space
\* is dropped, tag names come out in lower case, and several top-level
\* elements come out inside a <div> that the parser added.
Serialise(body, elems) ==
    [lead |-> FALSE,
     top |-> CASE body.top = "DIV" -> "div"
               [] body.top = "multi" -> "div"
               [] OTHER -> body.top,
     elems |-> elems]

\* fixed_body[5:-6] of a serialised <div>...</div>
StripDiv(serialised) == [serialised EXCEPT !.top = "multi"]

\* variant: the links are fixed also when the attachment fetch returned 404
FixBody_IgnoresNotFound(body, locale, found, attachments) ==
    LET fixed == Serialise(body,
                    [i \in 1..Len(body.elems) |->
                        FixElement(body.elems[i], locale, attachments)])
    IN  IF ~SurroundingDivInOrig(body) /\ StartsAndEndsWithPlainDiv(body)
        THEN StripDiv(fixed)
        ELSE fixed

\* fix_article_links, given the outcome of the attachment fetch
\* (found = FALSE: the fetch returned 404)
FixBody(body, locale, found, attachments) ==
    IF ~found THEN body
    ELSE LET fixed == Serialise(body,
                        [i \in 1..Len(body.elems) |->
                            FixElement(body.elems[i], locale, attachments)])
         IN  IF ~SurroundingDivInOrig(body) /\ StartsAndEndsWithPlainDiv(body)
             THEN StripDiv(fixed)
             ELSE fixed

\* the warnings that fix_article_links logs, in the order of the links
FixWarnings(body, locale, found, attachments) ==
    IF ~found THEN <<>>
    ELSE LET Unmatched(element) ==
                 /\ element.tag = "img"
                 /\ ~fix_image_link_found(element, locale, attachments)
             missed == SelectSeq(body.elems, Unmatched)
         IN  [i \in 1..Len(missed) |-> ImageWarning(missed[i], locale)]

---------------------------------------------------------------------------
(* Locale mapping *)

\* All Zendesk locale codes that occur as keys of a mapping of the model
ZdLocaleCodes == {"fr", "de", "fr-ca"}

MappingKeys(m) == {m[i][1] : i \in 1..Len(m)}
MappingGet(m, k) == LET i == CHOOSE j \in 1..Len(m) : m[j][1] = k IN m[i][2]

\* variant: a code that is not a key is handed on as it is
get_smartling_locale_PassThrough(zd_locale) ==
    IF zd_locale \notin MappingKeys(locale_mapping)
    THEN zd_locale
    ELSE MappingGet(locale_mapping, zd_locale)

\* get_smartling_locale: the ValueError is the result "invalid"
get_smartling_locale(zd_locale) ==
    IF zd_locale \notin MappingKeys(locale_mapping)
    THEN "invalid"
    ELSE MappingGet(locale_mapping, zd_locale)

\* variant: the last key, in iteration order, whose value matches
get_zendesk_locale_LastMatch(sl_locale) ==
    LET hits == {i \in 1..Len(locale_mapping) : locale_mapping[i][2] = sl_locale}
    IN  IF hits = {} THEN "invalid"
        ELSE locale_mapping[CHOOSE i \in hits : \A j \in hits : i >= j][1]

\* get_zendesk_locale: first key, in iteration order, whose value matches
get_zendesk_locale(sl_locale) ==
    LET hits == {i \in 1..Len(locale_mapping) : locale_mapping[i][2] = sl_locale}
    IN  IF hits = {} THEN "invalid"
        ELSE locale_mapping[CHOOSE i \in hits : \A j \in hits : i <= j][1]

---------------------------------------------------------------------------
(* Remote calls and exceptions *)

NoCall == [sys |-> "none", op |-> "none", type |-> "", id |-> 0,
           locale |-> "", arg |-> "", code |-> 0]
Call(sys, op, type, id, locale, arg, code) ==
    [sys |-> sys, op |-> op, type |-> type, id |-> id,
     locale |-> locale, arg |-> arg, code |-> code]

\* The raw response of a remote call, as far as the program keeps it
Response(op, code) == <<op, code>>

NoError == [kind |-> "none", code |-> 0, response |-> <<>>]
ZendeskError(op, code) ==
    [kind |-> "ZendeskError", code |-> code, response |-> Response(op, code)]
SmartlingError(op, code) ==
    [kind |-> "SmartlingError", code |-> code, response |-> Response(op, code)]
PythonError(kind) == [kind |-> kind, code |-> 0, response |-> <<>>]

\* main's try/except: a ZendeskError or a SmartlingError is logged and the
\* process exits; any other exception is uncaught and the process crashes.
ExitOf(e) == IF e.kind \in {"ZendeskError", "SmartlingError"} THEN "exit" ELSE "crash"

\* A server error: any status that is neither success nor not-found
ServerErrors == {500}

---------------------------------------------------------------------------
(* Zendesk, as the program sees it.  A translation can be shown or updated *)
(* when it exists, and created when its source item exists and has no      *)
(* translation for the locale yet; deleting a source item deletes its      *)
(* translations.                                                           *)

ItemGone(t, id) == zdItems[<<t, id>>] = "gone"

ZdItemShowCode(t, id) == IF ItemGone(t, id) THEN 404 ELSE 200
ZdAttachmentsCode(id) == IF ItemGone(TYPE_ARTICLE, id) THEN 404 ELSE 200
ZdTranslationShowCode(t, id, loc) ==
    IF ItemGone(t, id) \/ zdTrans[<<t, id, loc>>] = None THEN 404 ELSE 200
ZdTranslationUpdateCode(t, id, loc) ==
    IF ItemGone(t, id) \/ zdTrans[<<t, id, loc>>] = None THEN 404 ELSE 200
ZdTranslationCreateCode(t, id, loc) ==
    IF ItemGone(t, id) THEN 404
    ELSE IF zdTrans[<<t, id, loc>>] # None THEN 400 ELSE 200

\* The statuses a call can return: the one its store gives, or a server error
Codes(natural) == {natural} \cup ServerErrors


\* The program sees a change made by another user only through its next
\* Zendesk call, so a change is taken when the call about to be issued
\* reads what is changed.
PendingCallReadsItem(k) ==
    \/ pc \in {"fetch", "attachments", "show", "update", "create"}
        /\ k = <<cur.type, cur.id>>
    \/ pc = "list_source" /\ k[1] = cur.type

PendingCallReadsTranslation(x) ==
    /\ pc \in {"show", "update", "create"}
    /\ x = <<cur.type, cur.id, cur.zd_locale>>

\* Another user deletes a source item (and with it its translations)
EnvDeleteItem ==
    /\ envSteps < MaxEnvSteps
    /\ \E k \in DOMAIN zdItems :
        /\ PendingCallReadsItem(k)
        /\ zdItems[k] # "gone"
        /\ zdItems' = [zdItems EXCEPT ![k] = "gone"]
        /\ zdTrans' = [x \in DOMAIN zdTrans |->
                          IF x[1] = k[1] /\ x[2] = k[2] THEN None ELSE zdTrans[x]]
    /\ envSteps' = envSteps + 1
    /\ UNCHANGED <<cfgVars, zdAttachments, slVars, progVars>>

\* Another user deletes a stored translation
EnvDeleteTranslation ==
    /\ envSteps < MaxEnvSteps
    /\ \E x \in DOMAIN zdTrans :
        /\ PendingCallReadsTranslation(x)
        /\ zdTrans[x] # None
        /\ zdTrans' = [zdTrans EXCEPT ![x] = None]
    /\ envSteps' = envSteps + 1
    /\ UNCHANGED <<cfgVars, zdItems, zdAttachments, slVars, progVars>>

---------------------------------------------------------------------------
(* upload_article_translation_to_zendesk,                                  *)
(* upload_section_translation_to_zendesk,                                  *)
(* upload_category_translation_to_zendesk: the three functions have the    *)
(* same body, with the call names of their item type.                      *)

loopVars == <<phase, outer, inner, filtered>>

Issue(call) == lastCall' = call /\ ncalls' = ncalls + 1

Raise(e) == err' = e /\ pc' = ExitOf(e)

\* try: show ... except ZendeskError as e: if e.error_code == 404 ... else raise
\* variant: any failure of show falls back to create
AfterShow_AnyFailureCreates(code) ==
    IF code = 200 THEN "update" ELSE "create"

\* variant: create is called whether or not the translation exists
AfterShow_NeverUpdates(code) ==
    IF code \in {200, 404} THEN "create" ELSE "raise"

AfterShow(code) ==
    IF code = 200 THEN "update" ELSE IF code = 404 THEN "create" ELSE "raise"

\* variant: any failure of update falls back to create
AfterUpdate_AnyFailureCreates(code) ==
    IF code = 200 THEN "next" ELSE "create"

\* variant: only the 404 of show falls back to create
AfterUpdate_NotFoundRaises(code) ==
    IF code = 200 THEN "next" ELSE "raise"

\* update is inside the same try block as show
AfterUpdate(code) ==
    IF code = 200 THEN "next" ELSE IF code = 404 THEN "create" ELSE "raise"

\* variant: a 404 of create is raised like any other failure
AfterCreate_NotFoundRaises(code) ==
    IF code = 200 THEN "next" ELSE "raise"

\* except ZendeskError as ee: if ee.error_code == 404: (skip) else raise
AfterCreate(code) ==
    IF code = 200 THEN "next" ELSE IF code = 404 THEN "next" ELSE "raise"

UpsertStep(op, code, after) ==
    /\ Issue(Call("zd", op, cur.type, cur.id, cur.zd_locale, "", code))
    /\ ulog' = Append(ulog, [op |-> op, code |-> code])
    /\ IF after = "raise"
       THEN Raise(ZendeskError(op, code))
       ELSE pc' = after /\ err' = err

UpsertShow ==
    /\ pc = "show"
    /\ \E code \in Codes(ZdTranslationShowCode(cur.type, cur.id, cur.zd_locale)) :
        UpsertStep("translation_show", code, AfterShow(code))
    /\ UNCHANGED <<cfgVars, warnings, zdVars, slVars, envSteps, loopVars, cur, data,
                   translation, scan, driver>>

UpsertUpdate ==
    /\ pc = "update"
    /\ \E code \in Codes(ZdTranslationUpdateCode(cur.type, cur.id, cur.zd_locale)) :
        /\ UpsertStep("translation_update", code, AfterUpdate(code))
        /\ zdTrans' = IF code = 200
                      THEN [zdTrans EXCEPT ![<<cur.type, cur.id, cur.zd_locale>>] =
                                              translation]
                      ELSE zdTrans
    /\ UNCHANGED <<cfgVars, warnings, zdItems, zdAttachments, slVars, envSteps, loopVars,
                   cur, data, translation, scan, driver>>

\* the create call takes the locale from the translation record
UpsertCreate ==
    /\ pc = "create"
    /\ \E code \in Codes(ZdTranslationCreateCode(cur.type, cur.id, translation.locale)) :
        /\ UpsertStep("translation_create", code, AfterCreate(code))
        /\ zdTrans' = IF code = 200
                      THEN [zdTrans EXCEPT ![<<cur.type, cur.id, translation.locale>>] =
                                              translation]
                      ELSE zdTrans
    /\ UNCHANGED <<cfgVars, warnings, zdItems, zdAttachments, slVars, envSteps, loopVars,
                   cur, data, translation, scan, driver>>

upload_article_translation_to_zendesk ==
    /\ cur.type = TYPE_ARTICLE
    /\ (UpsertShow \/ UpsertUpdate \/ UpsertCreate)

upload_section_translation_to_zendesk ==
    /\ cur.type = TYPE_SECTION
    /\ (UpsertShow \/ UpsertUpdate \/ UpsertCreate)

upload_category_translation_to_zendesk ==
    /\ cur.type = TYPE_CATEGORY
    /\ (UpsertShow \/ UpsertUpdate \/ UpsertCreate)

Upsert ==
    \/ upload_article_translation_to_zendesk
    \/ upload_section_translation_to_zendesk
    \/ upload_category_translation_to_zendesk

---------------------------------------------------------------------------
(* Sample data *)

Name(stem, loc, ext) == [stem |-> stem, loc |-> loc, ext |-> ext]
Url(abs, dirs, last) == [abs |-> abs, dirs |-> dirs, last |-> last]
Element(tag, url) == [tag |-> tag, url |-> url]

AttachmentUrl(n, name) == Url(TRUE, <<"hc", "article_attachments", n>>, name)

\* <p><a href="/en-us/articles/5">..</a></p>
BodyAnchor ==
    [lead |-> FALSE, top |-> "p",
     elems |-> <<Element("a", Url(TRUE, <<"en-us", "articles">>, Name("5", "", "")))>>]

\* <p><img src="/hc/article_attachments/1/logo_en-us.png"></p><p><a href="/other/5">
BodyImage ==
    [lead |-> FALSE, top |-> "multi",
     elems |-> <<Element("img", AttachmentUrl("1", Name("logo", "en-us", "png"))),
                 Element("a", Url(TRUE, <<"other">>, Name("5", "", "")))>>]

RunBodies == {BodyAnchor, BodyImage}

\* The attachments of a source article: the image and its French version
SampleAttachments ==
    <<[file_name |-> Name("logo", "en-us", "png"),
       content_url |-> AttachmentUrl("1", Name("logo", "en-us", "png"))],
      [file_name |-> Name("logo", "fr", "png"),
       content_url |-> AttachmentUrl("2", Name("logo", "fr", "png"))]>>

\* Translation records as the construct_* functions build them
ArticleTranslation(loc, title, body, draft) ==
    [locale |-> loc, title |-> title, body |-> body, draft |-> draft]
SectionTranslation(loc, name, description) ==
    [locale |-> loc, name |-> name, description |-> description]

\* A translated text: which field, of which item, in which language
Text(field, id, loc) == <<field, id, loc>>

SampleTranslations(t, loc) ==
    IF t = TYPE_ARTICLE
    THEN {ArticleTranslation(loc, Text("title", v, loc), BodyAnchor, FALSE) : v \in {1, 2}}
    ELSE {SectionTranslation(loc, Text("name", v, loc), Text("description", v, loc)) :
             v \in {1, 2}}

AllLive == [k \in Types \X Ids |-> "live"]
NoTranslations == [x \in Types \X Ids \X ZdLocaleCodes |-> None]
NoAttachments == [i \in Ids |-> <<>>]
NoArgs == [mode |-> "none"]
NoScan == [n |-> 0, num_loops |-> 0, ids |-> <<>>]
NoItem == [type |-> "", id |-> 0, sl_locale |-> "", zd_locale |-> "",
           retrieval_type |-> ""]

---------------------------------------------------------------------------
(* Smartling, as the program sees it.  A file is stored under its uri; a   *)
(* translated document exists, or not, for each uri and locale.            *)

SlLocaleCodes == {"fr-FR", "de-DE"}

\* Strings whose characters the program looks at are sequences of
\* one-character strings.
Digits == <<"0", "1", "2", "3", "4", "5", "6", "7", "8", "9">>

TypeChars(item_type) ==
    CASE item_type = TYPE_ARTICLE -> <<"a", "r", "t", "i", "c", "l", "e">>
      [] item_type = TYPE_SECTION -> <<"s", "e", "c", "t", "i", "o", "n">>
      [] item_type = TYPE_CATEGORY -> <<"c", "a", "t", "e", "g", "o", "r", "y">>

\* variant: the digits come out lowest first
RECURSIVE str_LowestFirst(_)
str_LowestFirst(n) ==
    IF n < 10 THEN <<Digits[n + 1]>>
    ELSE <<Digits[(n % 10) + 1]>> \o str_LowestFirst(n \div 10)

\* str(item_id) of a non-negative integer
RECURSIVE str(_)
str(n) ==
    IF n < 10 THEN <<Digits[n + 1]>>
    ELSE str(n \div 10) \o <<Digits[(n % 10) + 1]>>

\* s.split(sep) for a one-character separator
RECURSIVE split(_, _)
split(s, sep) ==
    IF \A i \in 1..Len(s) : s[i] # sep THEN <<s>>
    ELSE LET k == CHOOSE i \in 1..Len(s) :
                      s[i] = sep /\ \A j \in 1..(i - 1) : s[j] # sep
         IN  <<SubSeq(s, 1, k - 1)>> \o split(SubSeq(s, k + 1, Len(s)), sep)

DigitValue(c) == (CHOOSE i \in 1..Len(Digits) : Digits[i] = c) - 1

\* int(s) returns for a string of decimal digits: for the strings of the
\* model, anything else is a ValueError
IsDecimal(s) ==
    /\ s # <<>>
    /\ \A i \in 1..Len(s) : \E d \in 1..Len(Digits) : Digits[d] = s[i]

RECURSIVE int(_)
int(s) ==
    IF Len(s) = 1 THEN DigitValue(s[1])
    ELSE int(SubSeq(s, 1, Len(s) - 1)) * 10 + DigitValue(s[Len(s)])

\* item_type + '_' + str(item_id) + '.json'
get_source_item_file_name(item_type, item_id) ==
    TypeChars(item_type) \o <<"_">> \o str(item_id) \o <<".", "j", "s", "o", "n">>

Uris == {get_source_item_file_name(t, i) : t \in Types, i \in Ids}

\* int(uri.split('_')[1].split('.')[0])
UriId(uri) == int(split(split(uri, "_")[2], ".")[1])

\* the IndexError of a uri without underscore, or the ValueError of int
UriIdRaises(uri) ==
    LET pieces == split(uri, "_")
    IN  Len(pieces) < 2 \/ ~IsDecimal(split(pieces[2], ".")[1])

\* The item type of a file, by the uri under which it was uploaded
UriType(uri) == CHOOSE t \in Types : TypeChars(t) = split(uri, "_")[1]

\* The source item as Zendesk returns it
SourceItem(t, id) == [id |-> id, draft |-> zdItems[<<t, id>>] = "draft"]

\* The translated document as Smartling returns it: the uploaded JSON with
\* the translatable fields translated
TranslatedDoc(t, id, sl_locale) ==
    IF t = TYPE_ARTICLE
    THEN [id |-> id, title |-> Text("title", id, sl_locale),
          body |-> IF id = 1 THEN BodyAnchor ELSE BodyImage,
          draft |-> id = MaxId]
    ELSE [id |-> id, name |-> Text("name", id, sl_locale),
          description |-> Text("description", id, sl_locale)]

\* The document that Smartling returns for a file of which a new revision
\* has been uploaded and is not yet translated: the strings of the new
\* revision come in the source language
PartialDoc(t, id, sl_locale) ==
    IF t = TYPE_ARTICLE
    THEN [TranslatedDoc(t, id, sl_locale) EXCEPT
            !.title = Text("title", id, ZD_SOURCE_LOCALE)]
    ELSE [TranslatedDoc(t, id, sl_locale) EXCEPT
            !.name = Text("name", id, ZD_SOURCE_LOCALE)]

\* conditions='haveAllTranslated': no string of the file is in the source
\* language
FullyTranslated(doc) ==
    /\ doc # None
    /\ \A f \in DOMAIN doc \cap {"title", "name", "description"} :
          doc[f][3] # ZD_SOURCE_LOCALE

\* slapi.get: (response, http_response_code).  For a translation that does
\* not exist the service answers with an error status or with an empty
\* (JSON null) document.
SlGetResponses(uri, sl_locale) ==
    (IF slTrans[<<uri, sl_locale>>] # None
     THEN {[code |-> 200, body |-> slTrans[<<uri, sl_locale>>]]}
     ELSE {[code |-> 404, body |-> None], [code |-> 200, body |-> None]})
    \cup {[code |-> c, body |-> None] : c \in ServerErrors}

\* slapi.list(uriMask=item_type, conditions='haveAllTranslated'): the files
\* of the type that are fully translated for the locale
CompletedFiles(t, sl_locale) ==
    LET all == [i \in 1..MaxId |-> get_source_item_file_name(t, i)]
        Test(u) == FullyTranslated(slTrans[<<u, sl_locale>>])
    IN  SelectSeq(all, Test)

\* Smartling list API returns items in 500-entry pages
PageSize == 500

Min(a, b) == IF a < b THEN a ELSE b

PageOf(files, offset) == SubSeq(files, offset + 1, Min(offset + PageSize, Len(files)))

\* help_center_articles / sections / categories: the items that exist
ListItems(t) ==
    LET all == [i \in 1..MaxId |-> i]
        Test(i) == ~ItemGone(t, i)
        live == SelectSeq(all, Test)
    IN  [k \in 1..Len(live) |-> SourceItem(t, live[k])]

\* A change of a file in Smartling is seen by the program through the
\* download of that file
PendingCallReadsFile(t, id) ==
    pc = "download" /\ t = cur.type /\ id = cur.id

\* Another run of the program (translate mode) uploads a new revision of an
\* item: the file is replaced, and its translations are no longer complete
EnvUploadRevision ==
    /\ envSteps < MaxEnvSteps
    /\ \E k \in DOMAIN zdItems :
        LET u == get_source_item_file_name(k[1], k[2])
        IN  /\ PendingCallReadsFile(k[1], k[2])
            /\ zdItems[k] # "gone"
            /\ slFiles' = [slFiles EXCEPT ![u] = SourceItem(k[1], k[2])]
            /\ slTrans' = [x \in DOMAIN slTrans |->
                              IF x[1] = u /\ slTrans[x] # None
                              THEN PartialDoc(k[1], k[2], x[2])
                              ELSE slTrans[x]]
    /\ envSteps' = envSteps + 1
    /\ UNCHANGED <<cfgVars, zdVars, progVars>>

---------------------------------------------------------------------------
(* main: the batches, in the order categories, sections, articles *)

NoSel == [kind |-> "none", ids |-> <<>>]
AllSel == [kind |-> "all", ids |-> <<>>]
IdsSel(ids) == [kind |-> "ids", ids |-> ids]

Running == args.mode \in {"translate", "retrieve"}
CurType == TypeOrder[phase]
CurSel == args.sel[CurType]

\* The retrieval type that main passes to
\* transfer_all_translations_from_smartling: the literal 'published'
\* variant: the value of --retrievaltype, as for a list of ids
BulkRetrievalType_AsSelected(selected) == selected

BulkRetrievalType(selected) == "published"

\* if args.categories: ... if args.sections: ... if args.articles: ...
main ==
    /\ pc = "phase"
    /\ Running
    /\ IF phase > Len(TypeOrder)
       THEN /\ pc' = "done"
            /\ UNCHANGED <<phase, outer, inner, cur>>
       ELSE CASE CurSel.kind = "none" ->
                   /\ phase' = phase + 1
                   /\ UNCHANGED <<pc, outer, inner, cur>>
              [] CurSel.kind = "all" ->
                   /\ cur' = [NoItem EXCEPT !.type = CurType,
                                            !.retrieval_type =
                                                BulkRetrievalType(args.retrievaltype)]
                   /\ pc' = "list_source"
                   /\ outer' = <<>>
                   /\ inner' = <<>>
                   /\ UNCHANGED phase
              [] CurSel.kind = "ids" ->
                   /\ cur' = [NoItem EXCEPT !.type = CurType,
                                            !.retrieval_type = args.retrievaltype]
                   /\ outer' = CurSel.ids
                   /\ inner' = <<>>
                   /\ pc' = "next"
                   /\ UNCHANGED phase
    /\ UNCHANGED <<cfgVars, warnings, zdVars, slVars, envSteps, filtered, data, translation,
                   ulog, lastCall, ncalls, err, scan, driver>>

\* the batch of the current item type is finished
NextPhase == phase' = phase + 1 /\ pc' = "phase"

---------------------------------------------------------------------------
(* Zendesk to Smartling *)

\* for item_id in item_ids: transfer_source_item_to_smartling(...)
transfer_source_items_to_smartling ==
    /\ pc = "next"
    /\ args.mode = "translate"
    /\ CurSel.kind = "ids"
    /\ IF outer = <<>>
       THEN NextPhase /\ UNCHANGED <<outer, cur>>
       ELSE /\ cur' = [cur EXCEPT !.id = Head(outer)]
            /\ outer' = Tail(outer)
            /\ pc' = "fetch"
            /\ UNCHANGED phase
    /\ UNCHANGED <<cfgVars, warnings, zdVars, slVars, envSteps, inner, filtered, data,
                   translation, ulog, lastCall, ncalls, err, scan, driver>>

\* except zdesk.ZendeskError as e: if e.error_code == 404: warn else: raise
\* else: upload_item_to_smartling
\* variant: a 404 of the fetch is raised like any other failure
AfterFetch_NotFoundRaises(code) ==
    IF code = 200 THEN "upload" ELSE "raise"

AfterFetch(code) ==
    IF code = 200 THEN "upload" ELSE IF code = 404 THEN "next" ELSE "raise"

transfer_source_item_to_smartling ==
    /\ pc = "fetch"
    /\ \E code \in Codes(ZdItemShowCode(cur.type, cur.id)) :
        /\ Issue(Call("zd", "item_show", cur.type, cur.id, "", "", code))
        /\ IF AfterFetch(code) = "raise"
           THEN Raise(ZendeskError("item_show", code)) /\ UNCHANGED data
           ELSE /\ pc' = AfterFetch(code)
                /\ err' = err
                /\ data' = IF code = 200 THEN SourceItem(cur.type, cur.id) ELSE data
    /\ UNCHANGED <<cfgVars, warnings, zdVars, slVars, envSteps, loopVars, cur, translation,
                   ulog, scan, driver>>

\* if http_response_code == 200: (log) else: raise SmartlingError(...)
\* variant: a failed upload is tried again
AfterUpload_Retries(code) == IF code = 200 THEN "next" ELSE "upload"

AfterUpload(code) == IF code = 200 THEN "next" ELSE "raise"

\* The files in Smartling after the upload call: the file of the item is
\* stored on success, and a failure is raised with the files as they were.
\* variant: a failed upload removes the files of the project
FilesAfterUpload_RetractsOnFailure(code) ==
    IF code = 200
    THEN [slFiles EXCEPT ![get_source_item_file_name(cur.type, data.id)] = data]
    ELSE [u \in DOMAIN slFiles |-> None]

FilesAfterUpload(code) ==
    IF code = 200
    THEN [slFiles EXCEPT ![get_source_item_file_name(cur.type, data.id)] = data]
    ELSE slFiles

\* upload_item_to_smartling and upload_source_file_to_smartling
upload_source_file_to_smartling ==
    /\ pc = "upload"
    /\ \E code \in Codes(200) :
        /\ Issue(Call("sl", "upload", cur.type, data.id, "", "", code))
        /\ IF AfterUpload(code) = "raise"
           THEN Raise(SmartlingError("upload", code))
           ELSE pc' = AfterUpload(code) /\ err' = err
        /\ slFiles' = FilesAfterUpload(code)
    /\ UNCHANGED <<cfgVars, warnings, zdVars, slTrans, envSteps, loopVars, cur, data,
                   translation, ulog, scan, driver>>

\* variant: a draft article is skipped whatever the include list says
KeepArticle_DraftsAlwaysSkipped(item) ==
    /\ ~item.draft
    /\ IF include_articles # {}
       THEN item.id \in include_articles /\ item.id \notin exclude_articles
       ELSE item.id \notin exclude_articles

\* the filter of get_all_source_items_from_zendesk, applied to articles only
KeepArticle(item) ==
    LET include_draft == include_articles # {}
    IN  /\ ~(~include_draft /\ item.draft)
        /\ IF include_articles # {}
           THEN item.id \in include_articles /\ item.id \notin exclude_articles
           ELSE item.id \notin exclude_articles

\* variant: the listing is taken as it is
FilterItems_NoFilter(t, full_list) == full_list

\* variant: the article filter is applied to every item type
FilterItems_EveryType(t, full_list) == SelectSeq(full_list, KeepArticle)

FilterItems(t, full_list) ==
    IF t = TYPE_ARTICLE THEN SelectSeq(full_list, KeepArticle) ELSE full_list

SeqToSet(q) == {q[i] : i \in 1..Len(q)}

\* get_all_source_items_from_zendesk, called by
\* transfer_all_source_items_to_smartling and by
\* transfer_all_translations_from_smartling
get_all_source_items_from_zendesk ==
    /\ pc = "list_source"
    /\ \E code \in Codes(200) :
        /\ Issue(Call("zd", "item_list", cur.type, 0, ZD_SOURCE_LOCALE, "", code))
        /\ IF code # 200
           THEN Raise(ZendeskError("item_list", code)) /\ UNCHANGED <<outer, filtered>>
           ELSE LET items == FilterItems(cur.type, ListItems(cur.type))
                IN  /\ pc' = "next"
                    /\ err' = err
                    /\ IF args.mode = "translate"
                       THEN outer' = items /\ UNCHANGED filtered
                       ELSE /\ filtered' = {items[i].id : i \in 1..Len(items)}
                            /\ outer' = args.locales
    /\ UNCHANGED <<cfgVars, warnings, zdVars, slVars, envSteps, phase, inner, cur, data,
                   translation, ulog, scan, driver>>

\* for item in get_all_source_items_from_zendesk(...): upload_item_to_smartling
transfer_all_source_items_to_smartling ==
    /\ pc = "next"
    /\ args.mode = "translate"
    /\ CurSel.kind = "all"
    /\ IF outer = <<>>
       THEN NextPhase /\ UNCHANGED <<outer, cur, data>>
       ELSE /\ data' = Head(outer)
            /\ cur' = [cur EXCEPT !.id = Head(outer).id]
            /\ outer' = Tail(outer)
            /\ pc' = "upload"
            /\ UNCHANGED phase
    /\ UNCHANGED <<cfgVars, warnings, zdVars, slVars, envSteps, inner, filtered,
                   translation, ulog, lastCall, ncalls, err, scan, driver>>

---------------------------------------------------------------------------
(* Smartling to Zendesk *)

\* for item_id in item_ids: for zd_locale in zd_locales: ...
transfer_translations_from_smartling ==
    /\ pc = "next"
    /\ args.mode = "retrieve"
    /\ CurSel.kind = "ids"
    /\ IF inner # <<>>
       THEN LET sl_locale == get_smartling_locale(Head(inner))
            IN  /\ inner' = Tail(inner)
                /\ IF sl_locale = "invalid"
                   THEN Raise(PythonError("ValueError")) /\ UNCHANGED cur
                   ELSE /\ cur' = [cur EXCEPT !.sl_locale = sl_locale, !.zd_locale = ""]
                        /\ pc' = "download"
                        /\ err' = err
                /\ UNCHANGED <<outer, phase>>
       ELSE IF outer # <<>>
       THEN /\ cur' = [cur EXCEPT !.id = Head(outer)]
            /\ outer' = Tail(outer)
            /\ inner' = args.locales
            /\ UNCHANGED <<pc, phase, err>>
       ELSE NextPhase /\ UNCHANGED <<outer, inner, cur, err>>
    /\ UNCHANGED <<cfgVars, warnings, zdVars, slVars, envSteps, filtered, data, translation,
                   ulog, lastCall, ncalls, scan, driver>>

\* for zd_locale in zd_locales: for completed_id in get_completed_ids(...):
\*     if completed_id in filtered_source_ids: ...
transfer_all_translations_from_smartling ==
    /\ pc = "next"
    /\ args.mode = "retrieve"
    /\ CurSel.kind = "all"
    /\ IF inner # <<>>
       THEN /\ inner' = Tail(inner)
            /\ IF Head(inner) \in filtered
               THEN /\ cur' = [cur EXCEPT !.id = Head(inner), !.zd_locale = ""]
                    /\ pc' = "download"
               ELSE UNCHANGED <<cur, pc>>
            /\ UNCHANGED <<outer, phase, err>>
       ELSE IF outer # <<>>
       THEN LET sl_locale == get_smartling_locale(Head(outer))
            IN  /\ outer' = Tail(outer)
                /\ IF sl_locale = "invalid"
                   THEN Raise(PythonError("ValueError")) /\ UNCHANGED cur
                   ELSE /\ cur' = [cur EXCEPT !.sl_locale = sl_locale]
                        /\ pc' = "list_count"
                        /\ err' = err
                /\ UNCHANGED <<inner, phase>>
       ELSE NextPhase /\ UNCHANGED <<outer, inner, cur, err>>
    /\ UNCHANGED <<cfgVars, warnings, zdVars, slVars, envSteps, filtered, data, translation,
                   ulog, lastCall, ncalls, scan, driver>>

\* variant: the quotient alone, without the page of the remainder
NumLoopsRequired_RoundsDown(file_count) == file_count \div PageSize

\* num_loops_required = (file_count / 500) + 1
NumLoopsRequired(file_count) == (file_count \div PageSize) + 1

RECURSIVE ParseIds(_)
ParseIds(fileList) ==
    IF fileList = <<>> THEN <<>>
    ELSE <<UriId(Head(fileList))>> \o ParseIds(Tail(fileList))

\* get_completed_ids: the first list call, which reads the file count
GetCompletedCount ==
    /\ pc = "list_count"
    /\ \E code \in Codes(200) :
        /\ Issue(Call("sl", "list", cur.type, 0, cur.sl_locale, "count", code))
        /\ IF code # 200
           THEN Raise(SmartlingError("list", code)) /\ UNCHANGED scan
           ELSE /\ scan' = [n |-> 0,
                            num_loops |-> NumLoopsRequired(
                                Len(CompletedFiles(cur.type, cur.sl_locale))),
                            ids |-> <<>>]
                /\ pc' = "list_page"
                /\ err' = err
    /\ UNCHANGED <<cfgVars, warnings, zdVars, slVars, envSteps, loopVars, cur, data,
                   translation, ulog, driver>>

\* get_completed_ids: for n in range(num_loops_required): list(offset = n * 500)
GetCompletedPage ==
    /\ pc = "list_page"
    /\ \E code \in Codes(200) :
        /\ Issue(Call("sl", "list", cur.type, scan.n * PageSize, cur.sl_locale,
                      "page", code))
        /\ IF code # 200
           THEN Raise(SmartlingError("list", code)) /\ UNCHANGED <<scan, inner>>
           ELSE LET page == PageOf(CompletedFiles(cur.type, cur.sl_locale),
                                   scan.n * PageSize)
                    ids == scan.ids \o ParseIds(page)
                IN  IF \E i \in 1..Len(page) : UriIdRaises(page[i])
                    THEN Raise(PythonError("ValueError")) /\ UNCHANGED <<scan, inner>>
                    ELSE /\ scan' = [scan EXCEPT !.n = scan.n + 1, !.ids = ids]
                         /\ err' = err
                         /\ IF scan.n + 1 < scan.num_loops
                            THEN UNCHANGED <<pc, inner>>
                            ELSE pc' = "next" /\ inner' = ids
    /\ UNCHANGED <<cfgVars, warnings, zdVars, slVars, envSteps, phase, outer, filtered, cur,
                   data, translation, ulog, driver>>

get_completed_ids == GetCompletedCount \/ GetCompletedPage

\* construct_article_translation, given the outcome of the attachment fetch
\* of fix_article_links
\* variant: the body is stored as downloaded
construct_article_translation_RawBody(item_id, translation_data, zd_locale, found, attachments) ==
    ArticleTranslation(zd_locale, translation_data.title, translation_data.body,
                       translation_data.draft)

construct_article_translation(item_id, translation_data, zd_locale, found, attachments) ==
    ArticleTranslation(zd_locale,
                       translation_data.title,
                       FixBody(translation_data.body, zd_locale, found, attachments),
                       translation_data.draft)

construct_section_translation(translation_data, zd_locale) ==
    SectionTranslation(zd_locale, translation_data.name, translation_data.description)

construct_category_translation(translation_data, zd_locale) ==
    SectionTranslation(zd_locale, translation_data.name, translation_data.description)

\* download_translation_from_smartling_json:
\* if http_response_code == 200: return json.loads(response) else: raise
\* transfer_translation_from_smartling, up to the construction of the record:
\* if translation_data is None: return
\* article: construct_article_translation(item_id, translation_data, zd_locale, zdapi)
\* section: construct_section_translation(translation_data), which lacks the
\*   second argument of the function: Python raises TypeError
\* category: construct_category_translation(translation_data), the same
\* variant: a document with a string in the source language is not stored
AfterDownload_ChecksCompletion(item_type, code, body) ==
    IF code # 200 THEN "raise"
    ELSE IF body = None THEN "next"
    ELSE IF ~FullyTranslated(body) THEN "next"
    ELSE IF item_type = TYPE_ARTICLE THEN "attachments"
    ELSE "TypeError"

\* variant: the translation of an article is downloaded and dropped
AfterDownload_DropsArticles(item_type, code, body) ==
    IF code # 200 THEN "raise"
    ELSE IF body = None \/ item_type = TYPE_ARTICLE THEN "next"
    ELSE "TypeError"

AfterDownload(item_type, code, body) ==
    IF code # 200 THEN "raise"
    ELSE IF body = None THEN "next"
    ELSE IF item_type = TYPE_ARTICLE THEN "attachments"
    ELSE "TypeError"

transfer_translation_from_smartling ==
    /\ pc = "download"
    /\ \E r \in SlGetResponses(get_source_item_file_name(cur.type, cur.id), cur.sl_locale) :
        LET after == AfterDownload(cur.type, r.code, r.body)
            zd_locale == get_zendesk_locale(cur.sl_locale)
        IN  /\ Issue(Call("sl", "get", cur.type, cur.id, cur.sl_locale,
                          cur.retrieval_type, r.code))
            /\ data' = IF r.code = 200 THEN r.body ELSE data
            /\ CASE after = "raise" ->
                      Raise(SmartlingError("get", r.code)) /\ UNCHANGED cur
                 [] after = "next" ->
                      pc' = "next" /\ err' = err /\ UNCHANGED cur
                 [] zd_locale = "invalid" ->
                      Raise(PythonError("ValueError")) /\ UNCHANGED cur
                 [] after = "TypeError" ->
                      /\ Raise(PythonError("TypeError"))
                      /\ cur' = [cur EXCEPT !.zd_locale = zd_locale]
                 [] OTHER ->
                      /\ pc' = after
                      /\ err' = err
                      /\ cur' = [cur EXCEPT !.zd_locale = zd_locale]
    /\ UNCHANGED <<cfgVars, warnings, zdVars, slVars, envSteps, loopVars, translation, ulog,
                   scan, driver>>

\* try: attachments = zdapi.help_center_article_attachments(article_id)
\* except zdesk.ZendeskError as e: if e.error_code == 404: (skip) else: raise
\* variant: any failure of the attachment listing leaves the images alone
AfterAttachments_AnyFailureSkips(code) == "show"

\* variant: a 404 of the attachment listing is raised
AfterAttachments_NotFoundRaises(code) == IF code = 200 THEN "show" ELSE "raise"

AfterAttachments(code) == IF code \in {200, 404} THEN "show" ELSE "raise"

\* fix_article_links inside construct_article_translation; the upsert follows
fix_article_links ==
    /\ pc = "attachments"
    /\ \E code \in Codes(ZdAttachmentsCode(cur.id)) :
        /\ Issue(Call("zd", "attachments", cur.type, cur.id, "", "", code))
        /\ IF AfterAttachments(code) = "raise"
           THEN /\ Raise(ZendeskError("attachments", code))
                /\ UNCHANGED <<translation, ulog, warnings>>
           ELSE /\ translation' = construct_article_translation(
                                      cur.id, data, cur.zd_locale, code = 200,
                                      zdAttachments[cur.id])
                /\ warnings' = FixWarnings(data.body, cur.zd_locale, code = 200,
                                           zdAttachments[cur.id])
                /\ ulog' = <<>>
                /\ pc' = AfterAttachments(code)
                /\ err' = err
    /\ UNCHANGED <<cfgVars, zdVars, slVars, envSteps, loopVars, cur, data, scan,
                   driver>>

---------------------------------------------------------------------------
(* A run of the program *)

\* The [zd-to-sl-locales] section of the configuration, in iteration order
Mappings ==
    {<<(<<"fr", "fr-FR">>), (<<"de", "de-DE">>)>>,
     <<(<<"fr-ca", "fr-FR">>), (<<"fr", "fr-FR">>)>>}

\* --locales: one locale, or both in either order
LocaleLists(m) == {<<m[1][1]>>, <<m[2][1]>>, <<m[1][1], m[2][1]>>, <<m[2][1], m[1][1]>>}

\* --articles, --sections, --categories: one id, or every id in either order
IdLists == {<<1>>, [i \in 1..MaxId |-> i], [i \in 1..MaxId |-> MaxId + 1 - i]}
Selectors == {NoSel, AllSel} \cup {IdsSel(l) : l \in IdLists}

ArgSets(m) ==
    [mode : {"translate"}, sel : [Types -> Selectors], locales : {<<>>},
     retrievaltype : {"published"}]
    \cup
    [mode : {"retrieve"}, sel : [Types -> Selectors], locales : LocaleLists(m),
     retrievaltype : {"published", "pending"}]

Filters == {<<{}, {}>>, <<{MaxId}, {}>>, <<{}, {1}>>, <<{1, MaxId}, {1}>>}

\* A translation stored in Zendesk by an earlier run
OldTranslation(t, loc) ==
    IF t = TYPE_ARTICLE
    THEN ArticleTranslation(loc, Text("old title", 0, loc), BodyAnchor, FALSE)
    ELSE SectionTranslation(loc, Text("old name", 0, loc), Text("old description", 0, loc))

Init ==
    /\ locale_mapping \in Mappings
    /\ args \in ArgSets(locale_mapping)
    /\ \E f \in Filters : include_articles = f[1] /\ exclude_articles = f[2]
    /\ zdItems = [AllLive EXCEPT ![<<TYPE_ARTICLE, MaxId>>] = "draft"]
    /\ zdTrans = [x \in Types \X Ids \X ZdLocaleCodes |->
                    IF x[2] = 1 /\ x[3] = "fr" THEN OldTranslation(x[1], x[3]) ELSE None]
    /\ zdAttachments = [i \in Ids |-> SampleAttachments]
    /\ slFiles = [u \in Uris |-> [id |-> UriId(u), draft |-> FALSE]]
    /\ slTrans = [x \in Uris \X SlLocaleCodes |->
                    IF UriId(x[1]) = MaxId /\ x[2] = "de-DE" THEN None
                    ELSE TranslatedDoc(UriType(x[1]), UriId(x[1]), x[2])]
    /\ envSteps = 0
    /\ pc = "phase"
    /\ phase = 1
    /\ outer = <<>>
    /\ inner = <<>>
    /\ filtered = {}
    /\ cur = NoItem
    /\ data = None
    /\ translation = None
    /\ ulog = <<>>
    /\ warnings = <<>>
    /\ lastCall = NoCall
    /\ ncalls = 0
    /\ err = NoError
    /\ scan = NoScan
    /\ driver = [left |-> 0, history |-> <<>>]

\* The upsert functions of sections and categories are not among the steps
\* of a run: transfer_translation_from_smartling raises before it calls them.
Next ==
    \/ main
    \/ transfer_source_items_to_smartling
    \/ transfer_source_item_to_smartling
    \/ upload_source_file_to_smartling
    \/ get_all_source_items_from_zendesk
    \/ transfer_all_source_items_to_smartling
    \/ transfer_translations_from_smartling
    \/ transfer_all_translations_from_smartling
    \/ get_completed_ids
    \/ transfer_translation_from_smartling
    \/ fix_article_links
    \/ upload_article_translation_to_zendesk
    \/ EnvDeleteItem
    \/ EnvDeleteTranslation
    \/ EnvUploadRevision

Spec == Init /\ [][Next]_vars


---------------------------------------------------------------------------
(* The upsert functions on their own: a driver calls one of them, for any  *)
(* item type, MaxCalls times in a row with the same arguments.             *)

MaxCalls == 2

InitUpsert ==
    /\ args = NoArgs
    /\ locale_mapping = <<>>
    /\ include_articles = {}
    /\ exclude_articles = {}
    /\ \E t \in Types, id \in Ids, loc \in {"fr", "de"} :
        /\ cur = [type |-> t, id |-> id, sl_locale |-> "", zd_locale |-> loc,
                  retrieval_type |-> ""]
        /\ translation \in SampleTranslations(t, loc)
        /\ \E state \in {"live", "gone"} :
              zdItems = [AllLive EXCEPT ![<<t, id>>] = state]
        /\ \E old \in SampleTranslations(t, loc) \cup {None} :
              zdTrans = [NoTranslations EXCEPT ![<<t, id, loc>>] =
                            IF zdItems[<<t, id>>] = "gone" THEN None ELSE old]
    /\ zdAttachments = NoAttachments
    /\ slFiles = {}
    /\ slTrans = <<>>
    /\ envSteps = 0
    /\ pc = "next"
    /\ phase = 0
    /\ outer = <<>>
    /\ inner = <<>>
    /\ filtered = {}
    /\ data = None
    /\ ulog = <<>>
    /\ warnings = <<>>
    /\ lastCall = NoCall
    /\ ncalls = 0
    /\ err = NoError
    /\ scan = NoScan
    /\ driver = [left |-> MaxCalls, history |-> <<>>]

\* the driver: note the calls of the call that returned, then call the
\* upsert function again, or stop
DriverCall ==
    /\ pc = "next"
    /\ LET history == IF driver.left = MaxCalls THEN <<>>
                      ELSE Append(driver.history, ulog)
       IN  IF driver.left > 0
           THEN /\ driver' = [left |-> driver.left - 1, history |-> history]
                /\ ulog' = <<>>
                /\ pc' = "show"
           ELSE /\ driver' = [driver EXCEPT !.history = history]
                /\ pc' = "done"
                /\ UNCHANGED ulog
    /\ UNCHANGED <<cfgVars, warnings, zdVars, slVars, envSteps, loopVars, cur, data,
                   translation, lastCall, ncalls, err, scan>>

NextUpsert ==
    \/ DriverCall
    \/ Upsert
    \/ EnvDeleteItem
    \/ EnvDeleteTranslation

SpecUpsert == InitUpsert /\ [][NextUpsert]_vars

---------------------------------------------------------------------------
(* The functions without remote calls on their own.  Each specification    *)
(* draws the arguments of a function and calls it.                         *)

\* The variables of a run that these specifications leave alone
NoRun ==
    /\ args = NoArgs
    /\ include_articles = {}
    /\ exclude_articles = {}
    /\ zdItems = AllLive
    /\ zdTrans = NoTranslations
    /\ slFiles = <<>>
    /\ slTrans = <<>>
    /\ envSteps = 0
    /\ phase = 0
    /\ filtered = {}
    /\ ulog = <<>>
    /\ warnings = <<>>
    /\ ncalls = 0
    /\ err = NoError
    /\ scan = NoScan

runVars == <<args, include_articles, exclude_articles, zdVars, slVars, envSteps,
             loopVars, ulog, warnings, lastCall, ncalls, scan, driver>>

\* Every [zd-to-sl-locales] section over the locale codes of the model, in
\* every iteration order of the dict: the keys are distinct, the values
\* need not be.
LocaleMappings ==
    {m \in UNION {[1..n -> ZdLocaleCodes \X SlLocaleCodes] :
                     n \in 0..Cardinality(ZdLocaleCodes)} :
        \A i, j \in 1..Len(m) : m[i][1] = m[j][1] => i = j}

\* Codes that no mapping of the model holds
UnmappedZdLocale == "es"
UnmappedSlLocale == "es-ES"

\* get_smartling_locale is called with any code, and get_zendesk_locale
\* with its result; or get_zendesk_locale is called with any code.
InitLocale ==
    /\ NoRun
    /\ zdAttachments = NoAttachments
    /\ lastCall = NoCall
    /\ driver = [left |-> 0, history |-> <<>>]
    /\ outer = <<>>
    /\ inner = <<>>
    /\ locale_mapping \in LocaleMappings
    /\ \/ /\ pc = "to_sl"
          /\ \E c \in ZdLocaleCodes \cup {UnmappedZdLocale} :
                cur = [NoItem EXCEPT !.zd_locale = c]
       \/ /\ pc = "to_zd"
          /\ \E c \in SlLocaleCodes \cup {UnmappedSlLocale} :
                cur = [NoItem EXCEPT !.sl_locale = c]
    /\ data = None
    /\ translation = None

CallGetSmartlingLocale ==
    /\ pc = "to_sl"
    /\ LET sl_locale == get_smartling_locale(cur.zd_locale)
       IN  IF sl_locale = "invalid"
           THEN Raise(PythonError("ValueError")) /\ UNCHANGED cur
           ELSE /\ cur' = [cur EXCEPT !.sl_locale = sl_locale]
                /\ pc' = "to_zd"
                /\ err' = err
    /\ UNCHANGED <<runVars, locale_mapping, data, translation>>

CallGetZendeskLocale ==
    /\ pc = "to_zd"
    /\ LET zd_locale == get_zendesk_locale(cur.sl_locale)
       IN  IF zd_locale = "invalid"
           THEN Raise(PythonError("ValueError")) /\ UNCHANGED data
           ELSE /\ data' = zd_locale
                /\ pc' = "done"
                /\ err' = err
    /\ UNCHANGED <<runVars, locale_mapping, cur, translation>>

NextLocale == CallGetSmartlingLocale \/ CallGetZendeskLocale

SpecLocale == InitLocale /\ [][NextLocale]_vars

\* Longest directory part of a link, in segments
MaxDirs == 2

PathSegments == {ZD_SOURCE_LOCALE, "hc"}
DirSeqs == UNION {[1..n -> PathSegments] : n \in 0..MaxDirs}

\* href values: /en-us/5, en-us/hc/5, /hc/en-us/5, /en-us/en-us/5, ...
AnchorUrls == {Url(abs, dirs, Name("5", "", "")) : abs \in BOOLEAN, dirs \in DirSeqs}

\* file names of images: logo_en-us.png, logo_en-us.jpeg, logo_en-us.ai,
\* logo_fr.png, logo.png, logo_en-us
ImageNames ==
    {Name("logo", ZD_SOURCE_LOCALE, "png"), Name("logo", ZD_SOURCE_LOCALE, "jpeg"),
     Name("logo", ZD_SOURCE_LOCALE, "ai"), Name("logo", "fr", "png"),
     Name("logo", "", "png"), Name("logo", ZD_SOURCE_LOCALE, "")}

LinkElements ==
    {Element("a", u) : u \in AnchorUrls}
    \cup {Element("img", AttachmentUrl("1", n)) : n \in ImageNames}
    \cup {Element("script", Url(TRUE, <<ZD_SOURCE_LOCALE>>, Name("app", ZD_SOURCE_LOCALE, "png")))}

\* bodies with no link, with one link, and one with an image and an anchor
LinkBodies ==
    {[lead |-> l, top |-> t, elems |-> q] :
        l \in BOOLEAN,
        t \in {"div", "divattr", "DIV", "p", "multi"},
        q \in {<<>>, BodyImage.elems} \cup {<<e>> : e \in LinkElements}}

\* The attachments of an article whose images exist in French, one of them
\* uploaded twice
LocalisedAttachments ==
    <<[file_name |-> Name("logo", "fr", "png"),
       content_url |-> AttachmentUrl("2", Name("logo", "fr", "png"))],
      [file_name |-> Name("logo", "fr", "jpeg"),
       content_url |-> AttachmentUrl("3", Name("logo", "fr", "jpeg"))],
      [file_name |-> Name("logo", "fr", "ai"),
       content_url |-> AttachmentUrl("4", Name("logo", "fr", "ai"))],
      [file_name |-> Name("logo", "fr", ""),
       content_url |-> AttachmentUrl("5", Name("logo", "fr", ""))],
      [file_name |-> Name("logo", "fr", "png"),
       content_url |-> AttachmentUrl("6", Name("logo", "fr", "png"))]>>

AttachmentLists == {<<>>, SampleAttachments, LocalisedAttachments}

\* fix_article_links is called MaxCalls times for an article, a locale and
\* an attachment list, first with a body and then with what the call before
\* returned.  The listing of the attachments has been answered, with the
\* list or with 404, the same way for every call.
InitLinks ==
    /\ NoRun
    /\ locale_mapping = <<>>
    /\ outer = <<>>
    /\ inner = <<>>
    /\ \E atts \in AttachmentLists : zdAttachments = [i \in Ids |-> atts]
    /\ \E loc \in {"fr", "de"} :
          cur = [NoItem EXCEPT !.type = TYPE_ARTICLE, !.id = 1, !.zd_locale = loc]
    /\ \E code \in {200, 404} :
          lastCall = Call("zd", "attachments", TYPE_ARTICLE, 1, "", "", code)
    /\ \E body \in LinkBodies : data = [body |-> body]
    /\ translation = None
    /\ driver = [left |-> MaxCalls, history |-> <<>>]
    /\ pc = "fix"

CallFixArticleLinks ==
    /\ pc = "fix"
    /\ IF driver.left = 0
       THEN pc' = "done" /\ UNCHANGED <<driver, warnings>>
       ELSE LET body == IF driver.history = <<>> THEN data.body
                        ELSE driver.history[Len(driver.history)]
                found == lastCall.code = 200
                attachments == zdAttachments[cur.id]
            IN  /\ driver' = [left |-> driver.left - 1,
                              history |-> Append(driver.history,
                                 FixBody(body, cur.zd_locale, found, attachments))]
                /\ warnings' = FixWarnings(body, cur.zd_locale, found, attachments)
                /\ pc' = pc
    /\ UNCHANGED <<cfgVars, zdVars, slVars, envSteps, loopVars, cur, data, translation,
                   ulog, lastCall, ncalls, err, scan>>

NextLinks == CallFixArticleLinks

SpecLinks == InitLinks /\ [][NextLinks]_vars

\* Largest of the small item ids for which a uri is built and parsed
MaxUriId == 12

\* ids of one and of two digits, and one of the size of a Zendesk id
UriIds == 1..MaxUriId \cup {200109629}

\* get_source_item_file_name is called for two items, and the two uris are
\* the fileList from which get_completed_ids parses the ids.
InitUri ==
    /\ NoRun
    /\ zdAttachments = NoAttachments
    /\ lastCall = NoCall
    /\ driver = [left |-> 0, history |-> <<>>]
    /\ locale_mapping = <<>>
    /\ cur = NoItem
    /\ data = None
    /\ translation = None
    /\ inner = <<>>
    /\ \E t1, t2 \in Types, i1, i2 \in UriIds :
          outer = <<[type |-> t1, id |-> i1], [type |-> t2, id |-> i2]>>
    /\ pc = "name"

CallGetSourceItemFileName ==
    /\ pc = "name"
    /\ inner' = [i \in 1..Len(outer) |->
                    get_source_item_file_name(outer[i].type, outer[i].id)]
    /\ pc' = "parse"
    /\ UNCHANGED <<cfgVars, warnings, zdVars, slVars, envSteps, phase, outer, filtered,
                   cur, data, translation, ulog, lastCall, ncalls, err, scan, driver>>

\* for file in response_data.fileList: ... ids.append(int(id))
ParseFileList ==
    /\ pc = "parse"
    /\ IF \E i \in 1..Len(inner) : UriIdRaises(inner[i])
       THEN Raise(PythonError("ValueError")) /\ UNCHANGED scan
       ELSE /\ scan' = [scan EXCEPT !.ids = ParseIds(inner)]
            /\ pc' = "done"
            /\ err' = err
    /\ UNCHANGED <<cfgVars, warnings, zdVars, slVars, envSteps, loopVars, cur, data,
                   translation, ulog, lastCall, ncalls, driver>>

NextUri == CallGetSourceItemFileName \/ ParseFileList

SpecUri == InitUri /\ [][NextUri]_vars

\* Longest listing of files that the scanner is given
MaxListed == 2

\* The files that a Smartling project can hold under a name that contains
\* the item type: the files of this program, and files of other origin (a
\* backup, a second revision, another uploader's prefix, a padded number, a
\* name without underscore, a name without number).
ListedUris(t) ==
    UNION {{ get_source_item_file_name(t, i),
             get_source_item_file_name(t, i) \o <<".", "b", "a", "k">>,
             TypeChars(t) \o <<"_">> \o str(i) \o <<"_", "v", "2", ".", "j", "s", "o", "n">>,
             <<"m", "y">> \o get_source_item_file_name(t, i),
             TypeChars(t) \o <<"_", "0">> \o str(i) \o <<".", "j", "s", "o", "n">>,
             TypeChars(t) \o str(i) \o <<".", "j", "s", "o", "n">>,
             TypeChars(t) \o <<"_", "a", "b", "c", ".", "j", "s", "o", "n">> }
           : i \in {1, MaxUriId}}

\* Every listing of at most MaxListed files
Listings(t) ==
    UNION {[1..n -> ListedUris(t)] : n \in 1..MaxListed}

\* get_completed_ids has received a page of the listing for item_type
InitScan ==
    /\ NoRun
    /\ zdAttachments = NoAttachments
    /\ lastCall = NoCall
    /\ driver = [left |-> 0, history |-> <<>>]
    /\ locale_mapping = <<>>
    /\ data = None
    /\ translation = None
    /\ outer = <<>>
    /\ \E t \in Types :
          /\ cur = [NoItem EXCEPT !.type = t]
          /\ inner \in Listings(t)
    /\ pc = "parse"

SpecScan == InitScan /\ [][ParseFileList]_vars

\* Largest count of completed files that a listing reports
MaxFileCount == 1001

\* get_completed_ids over a listing of any length.  The listing is held by
\* its length alone (data.fileCount, as Smartling reports it) and a page by
\* the positions of the listing that it returns: Smartling answers a request
\* at an offset with the files at the next 500 positions, as far as they
\* exist.
InitPages ==
    /\ NoRun
    /\ zdAttachments = NoAttachments
    /\ lastCall = NoCall
    /\ driver = [left |-> 0, history |-> <<>>]
    /\ locale_mapping = <<>>
    /\ translation = None
    /\ outer = <<>>
    /\ inner = <<>>
    /\ cur = [NoItem EXCEPT !.type = TYPE_ARTICLE, !.sl_locale = "fr-FR"]
    /\ \E N \in 0..MaxFileCount : data = [fileCount |-> N]
    /\ pc = "list_count"

\* the first list call: file_count = response_data.fileCount
CountFiles ==
    /\ pc = "list_count"
    /\ \E code \in Codes(200) :
        /\ Issue(Call("sl", "list", cur.type, 0, cur.sl_locale, "count", code))
        /\ IF code # 200
           THEN Raise(SmartlingError("list", code)) /\ UNCHANGED scan
           ELSE LET num_loops_required == NumLoopsRequired(data.fileCount)
                IN  /\ scan' = [n |-> 0, num_loops |-> num_loops_required, ids |-> <<>>]
                    /\ pc' = IF num_loops_required > 0 THEN "list_page" ELSE "done"
                    /\ err' = err
    /\ UNCHANGED <<cfgVars, warnings, zdVars, slVars, envSteps, loopVars, cur, data,
                   translation, ulog, driver>>

\* for n in range(num_loops_required): list(offset = n * 500)
RequestPage ==
    /\ pc = "list_page"
    /\ \E code \in Codes(200) :
        /\ Issue(Call("sl", "list", cur.type, scan.n * PageSize, cur.sl_locale,
                      "page", code))
        /\ IF code # 200
           THEN Raise(SmartlingError("list", code)) /\ UNCHANGED <<scan, driver>>
           ELSE /\ driver' = [driver EXCEPT !.history = Append(@,
                                 [offset |-> scan.n * PageSize,
                                  first |-> scan.n * PageSize + 1,
                                  last |-> Min(scan.n * PageSize + PageSize,
                                               data.fileCount)])]
                /\ scan' = [scan EXCEPT !.n = scan.n + 1]
                /\ err' = err
                /\ pc' = IF scan.n + 1 < scan.num_loops THEN pc ELSE "done"
    /\ UNCHANGED <<cfgVars, warnings, zdVars, slVars, envSteps, loopVars, cur, data,
                   translation, ulog>>

NextPages == CountFiles \/ RequestPage

SpecPages == InitPages /\ [][NextPages]_vars

\* The values of --retrievaltype and of --loglevel that main accepts
RetrievalKinds == {"published", "pseudo", "pending"}
LOGGING_LEVELS == {"info", "warning", "error", "critical", "debug"}

\* --locales as given: absent, 'all', or the codes between the commas
RawLocaleLists(m) ==
    {<<>>, <<"all">>, <<m[1][1]>>, <<m[1][1], m[2][1]>>, <<UnmappedZdLocale>>,
     <<m[1][1], UnmappedZdLocale>>}

\* The command lines: the two mode flags, --locales, --retrievaltype (absent
\* means its default 'published') and --loglevel (default 'info'), each
\* with a value that main rejects
CommandLines(m) ==
    [translate : BOOLEAN, retrieve : BOOLEAN, locales : RawLocaleLists(m),
     retrievaltype : RetrievalKinds \cup {"draft"},
     loglevel : {"info", "debug", "verbose"}]

is_valid_locale_list(locales) ==
    \/ locales = <<"all">>
    \/ \A i \in 1..Len(locales) : locales[i] \in MappingKeys(locale_mapping)

\* The process is started with a command line; the configuration is loaded
InitCli ==
    /\ NoRun
    /\ zdAttachments = NoAttachments
    /\ lastCall = NoCall
    /\ driver = [left |-> 0, history |-> <<>>]
    /\ locale_mapping \in Mappings
    /\ cur = NoItem
    /\ translation = None
    /\ outer = <<>>
    /\ inner = <<>>
    /\ data \in CommandLines(locale_mapping)
    /\ pc = "args"

\* The status with which the process ends: main returns (0) after the run
\* or after a message about the command line; sys.exit(message) and an
\* uncaught exception end it with 1; 2 stands for a process that has not
\* ended.
ExitStatus ==
    CASE pc \in {"done", "usage"} -> 0
      [] pc \in {"exit", "crash"} -> 1
      [] OTHER -> 2

\* The message that main prints about the command line, or none
UsageMessage(cmd) ==
    CASE ~cmd.translate /\ ~cmd.retrieve ->
           <<"Please specify either translate (-t) or retrieve (-r)">>
      [] cmd.translate /\ cmd.retrieve ->
           <<"Please specify either translate (-t) or retrieve (-r)">>
      [] cmd.translate /\ cmd.locales # <<>> ->
           <<"Locales currently only supported for retrieval">>
      [] cmd.retrieve /\ cmd.locales = <<>> ->
           <<"Please specify locales, or all">>
      [] cmd.locales # <<>> /\ ~is_valid_locale_list(cmd.locales) ->
           <<"Please specify a valid comma-separated list of locales, or leave blank",
             "Valid locales">>
      [] cmd.retrievaltype \notin RetrievalKinds ->
           <<"Please specify a valid retrieval type (published, pseudo or pending), or leave blank">>
      [] cmd.loglevel \notin LOGGING_LEVELS ->
           <<"Please specify a valid logging level (debug, info, warning, error, critical), or leave blank">>
      [] OTHER -> <<>>

\* main, from parse_args to the start of the transfers: each check prints
\* its message and returns
ParseCommandLine ==
    /\ pc = "args"
    /\ LET cmd == data
           message == UsageMessage(cmd)
           locales == IF cmd.locales = <<"all">>
                      THEN [i \in 1..Len(locale_mapping) |-> locale_mapping[i][1]]
                      ELSE cmd.locales
       IN  IF message # <<>>
           THEN /\ warnings' = message
                /\ pc' = "usage"
                /\ UNCHANGED <<args, phase>>
           ELSE /\ args' = [mode |-> IF cmd.translate THEN "translate" ELSE "retrieve",
                            sel |-> [t \in Types |-> NoSel],
                            locales |-> locales,
                            retrievaltype |-> cmd.retrievaltype]
                /\ phase' = 1
                /\ pc' = "phase"
                /\ UNCHANGED warnings
    /\ UNCHANGED <<locale_mapping, include_articles, exclude_articles, zdVars, slVars,
                   envSteps, outer, inner, filtered, cur, data, translation, ulog,
                   lastCall, ncalls, err, scan, driver>>

SpecCli == InitCli /\ [][ParseCommandLine]_vars

---------------------------------------------------------------------------
(* Properties *)

Entry(op, code) == [op |-> op, code |-> code]
PositionsOf(op) == {i \in 1..Len(ulog) : ulog[i].op = op}
UpsertOps == {"translation_show", "translation_update", "translation_create"}
UpsertKey == <<cur.type, cur.id, cur.zd_locale>>
LastKey == <<lastCall.type, lastCall.id, lastCall.locale>>

\* C1: within one call of an upsert function, of any item type, the show
\* call comes first, the update call is issued only after a successful show,
\* the create call only right after a call that returned 404, nothing is
\* called after a successful update or create, and each of the three calls
\* is issued at most once.
C1_UpsertCallOrder ==
    /\ Len(ulog) <= 3
    /\ \A op \in UpsertOps : Cardinality(PositionsOf(op)) <= 1
    /\ \A i \in 1..Len(ulog) :
        /\ ulog[i].op \in UpsertOps
        /\ i = 1 => ulog[i].op = "translation_show"
        /\ ulog[i].op = "translation_update" =>
              i = 2 /\ ulog[1] = Entry("translation_show", 200)
        /\ ulog[i].op = "translation_create" => i > 1 /\ ulog[i - 1].code = 404
        /\ (ulog[i].op \in {"translation_update", "translation_create"}
              /\ ulog[i].code = 200) => i = Len(ulog)

\* a section upsert that went through all three calls
C1_Witness ==
    /\ cur.type = TYPE_SECTION
    /\ ulog = <<Entry("translation_show", 200), Entry("translation_update", 404),
                Entry("translation_create", 200)>>

\* C2: when the show call and then the create call return 404, the upsert
\* returns to the loop of the batch without an error, the loop is where it
\* was, and no translation is stored for the item and locale.
C2_DoubleNotFoundIsSkipped ==
    [][(/\ pc = "create"
        /\ ncalls' # ncalls
        /\ ulog = <<Entry("translation_show", 404)>>
        /\ lastCall'.code = 404)
       => (/\ err' = NoError
           /\ pc' = "next"
           /\ outer' = outer
           /\ inner' = inner
           /\ zdTrans'[UpsertKey] = None)]_vars

\* a double 404 in a retrieval that has a further locale to go
C2_Witness ==
    /\ args.mode = "retrieve"
    /\ ulog = <<Entry("translation_show", 404), Entry("translation_create", 404)>>
    /\ pc = "next"
    /\ inner # <<>>
    /\ err = NoError

\* C3: a show, update or create call that fails with a status other than
\* 404 is the last call of the upsert, and its error is raised.
C3_OtherFailureIsRaised ==
    \A i \in 1..Len(ulog) :
        ulog[i].code \notin {200, 404} =>
            /\ i = Len(ulog)
            /\ err = ZendeskError(ulog[i].op, ulog[i].code)
            /\ pc = "exit"

\* an update that failed with a server error
C3_Witness ==
    /\ ulog = <<Entry("translation_show", 200), Entry("translation_update", 500)>>
    /\ err = ZendeskError("translation_update", 500)

FreshCreate == <<Entry("translation_show", 404), Entry("translation_create", 200)>>
UpdatePath == <<Entry("translation_show", 200), Entry("translation_update", 200)>>
NoServerError(log) == \A i \in 1..Len(log) : log[i].code \notin ServerErrors

\* C4: when the first call found the source item and no translation (it
\* created one) and nobody else changes the store, every later call with the
\* same arguments takes the update path and the store stays what the first
\* call left: the one translation, equal to the record.
C4_UpsertIdempotent ==
    (/\ driver.history # <<>>
     /\ driver.history[1] = FreshCreate
     /\ envSteps = 0)
    => /\ zdTrans = [NoTranslations EXCEPT ![UpsertKey] = translation]
       /\ NoServerError(ulog) => err = NoError
       /\ pc = "done" =>
             /\ Len(driver.history) = MaxCalls
             /\ \A i \in 2..Len(driver.history) : driver.history[i] = UpdatePath

\* two calls in a row, the first created, the second updated
C4_Witness ==
    /\ pc = "done"
    /\ envSteps = 0
    /\ Len(driver.history) >= 2
    /\ driver.history[1] = FreshCreate
    /\ driver.history[2] = UpdatePath
    /\ zdTrans[UpsertKey] = translation

LastUri == get_source_item_file_name(lastCall.type, lastCall.id)

\* C5: a download for which Smartling has no translation (and answers so,
\* not with a server error) ends without an error, and the next remote call,
\* if any, is not a call of the upsert.
C5_MissingTranslationIsNoOp ==
    (/\ lastCall.op = "get"
     /\ slTrans[<<LastUri, lastCall.locale>>] = None
     /\ lastCall.code \notin ServerErrors)
    => (err = NoError /\ pc \notin {"exit", "crash", "show", "update", "create"})

\* C6: after the download of a section or category translation, the record
\* {locale, name, description} is built and the show call of the upsert is next.
C6_SectionRecordIsUpserted ==
    (/\ lastCall.op = "get"
     /\ lastCall.code = 200
     /\ data # None
     /\ cur.type \in {TYPE_SECTION, TYPE_CATEGORY})
    => /\ pc = "show"
       /\ translation = SectionTranslation(get_zendesk_locale(cur.sl_locale),
                                           data.name, data.description)

ExpectedArticleTranslation(found) ==
    ArticleTranslation(get_zendesk_locale(cur.sl_locale),
                       data.title,
                       FixBody(data.body, get_zendesk_locale(cur.sl_locale), found,
                               zdAttachments[cur.id]),
                       data.draft)

\* C7: the record with which the upsert of an article is entered has the
\* locale mapped back from the Smartling locale, the title and the draft flag
\* of the downloaded document, and its body with the links fixed for that
\* locale; that record is what a successful update or create stores.
C7_ArticleRecord ==
    /\ (pc = "show" /\ Running) =>
          /\ cur.type = TYPE_ARTICLE
          /\ lastCall.op = "attachments"
          /\ data = slTrans[<<get_source_item_file_name(cur.type, cur.id), cur.sl_locale>>]
          /\ cur.zd_locale = get_zendesk_locale(cur.sl_locale)
          /\ translation = ExpectedArticleTranslation(lastCall.code = 200)
    /\ (pc \in {"update", "create"} /\ Running) =>
          translation \in {ExpectedArticleTranslation(TRUE),
                           ExpectedArticleTranslation(FALSE)}
    /\ (/\ Running
        /\ lastCall.op \in {"translation_update", "translation_create"}
        /\ lastCall.code = 200
        /\ zdTrans[LastKey] # None) => zdTrans[LastKey] = translation

\* an article whose links were changed, stored under a Zendesk locale
C7_Witness ==
    /\ Running
    /\ lastCall.op = "translation_create"
    /\ lastCall.code = 200
    /\ zdTrans[LastKey] = translation
    /\ translation.body # data.body
    /\ translation.locale = "fr-ca"
    /\ cur.sl_locale = "fr-FR"

\* C8: a source item that Zendesk does not find is skipped: no error, no
\* upload, and the loop goes on with the next id; any other failure of the
\* fetch is raised, and nothing is uploaded.
C8_MissingSourceItemIsSkipped ==
    [][/\ (pc = "fetch" /\ ncalls' # ncalls /\ lastCall'.code = 404)
          => (/\ err' = NoError
              /\ pc' = "next"
              /\ outer' = outer
              /\ slFiles' = slFiles)
       /\ (pc = "fetch" /\ ncalls' # ncalls /\ lastCall'.code \notin {200, 404})
          => (/\ err' = ZendeskError("item_show", lastCall'.code)
              /\ pc' = "exit"
              /\ slFiles' = slFiles)
       /\ (pc = "next" /\ args.mode = "translate" /\ CurSel.kind = "ids"
             /\ outer # <<>> /\ pc' # pc)
          => (pc' = "fetch" /\ cur'.id = Head(outer))]_vars

\* the fetch of one id returned 404 and the next id is being fetched
C8_Witness ==
    /\ pc = "fetch"
    /\ lastCall.op = "item_show"
    /\ lastCall.code = 404
    /\ lastCall.id # cur.id
    /\ err = NoError

\* C9: an upload that returns a status other than 200 raises a
\* SmartlingError with that status and the response, and the run ends there.
C9_UploadFailureIsFatal ==
    (lastCall.op = "upload" /\ lastCall.code # 200)
    => /\ err = [kind |-> "SmartlingError", code |-> lastCall.code,
                 response |-> Response("upload", lastCall.code)]
       /\ pc = "exit"

\* a failed upload with further items left in the batch
C9_Witness ==
    /\ lastCall.op = "upload"
    /\ lastCall.code = 500
    /\ pc = "exit"
    /\ outer # <<>>

\* A response that ends the run: a status that is not success and is not a
\* 404 of a call whose 404 is a documented case (the Zendesk show, update,
\* create, fetch and attachment calls, and the download of a translation).
Fatal(call) ==
    \/ call.sys = "zd" /\ call.code \notin {200, 404}
    \/ call.sys = "sl" /\ call.code # 200 /\ ~(call.op = "get" /\ call.code = 404)

\* C10: right after a fatal response the run has ended with that error: no
\* call follows, and the rest of the batch is left undone.
C10_FatalResponseEndsRun ==
    Fatal(lastCall) => (pc = "exit" /\ err.code = lastCall.code
                        /\ err.response = Response(lastCall.op, lastCall.code))

\* a failed page request of the completion scan, with locales left to do
C10_Witness ==
    /\ lastCall.op = "list"
    /\ lastCall.arg = "page"
    /\ lastCall.code = 500
    /\ pc = "exit"
    /\ outer # <<>>

SeqIds(items) == {items[i].id : i \in 1..Len(items)}

\* The articles a bulk transfer is to send, by the rule of the filters
ExpectedArticles ==
    {i \in Ids :
        /\ zdItems[<<TYPE_ARTICLE, i>>] # "gone"
        /\ i \notin exclude_articles
        /\ IF include_articles = {}
           THEN zdItems[<<TYPE_ARTICLE, i>>] # "draft"
           ELSE i \in include_articles}

BulkListAnswered(t) ==
    /\ pc = "list_source"
    /\ args.mode = "translate"
    /\ cur.type = t
    /\ ncalls' # ncalls
    /\ lastCall'.code = 200

\* C11: a bulk transfer of articles takes from the listing exactly the
\* articles that are not excluded and, with an empty include list, not
\* draft, or, with a non-empty include list, included (draft or not); each
\* once, and every upload of the batch is for one of them.
C11_ArticleFilter ==
    [][/\ BulkListAnswered(TYPE_ARTICLE)
          => (/\ SeqIds(outer') = ExpectedArticles
              /\ Len(outer') = Cardinality(ExpectedArticles)
              /\ pc' = "next")
       /\ (/\ pc = "upload" /\ ncalls' # ncalls
           /\ args.mode = "translate" /\ CurSel.kind = "all"
           /\ cur.type = TYPE_ARTICLE)
          => lastCall'.id \in ExpectedArticles]_vars

\* a draft article that the include list names has been uploaded
C11_Witness ==
    /\ args.mode = "translate"
    /\ args.sel[TYPE_ARTICLE].kind = "all"
    /\ lastCall.op = "upload"
    /\ lastCall.type = TYPE_ARTICLE
    /\ lastCall.code = 200
    /\ zdItems[<<TYPE_ARTICLE, lastCall.id>>] = "draft"
    /\ lastCall.id \in include_articles
    /\ slFiles[get_source_item_file_name(TYPE_ARTICLE, lastCall.id)].draft

\* C12: a bulk transfer of sections or of categories takes every item of
\* the listing, whatever the include and exclude lists hold.
C12_SectionsAreNotFiltered ==
    [][/\ \A t \in {TYPE_SECTION, TYPE_CATEGORY} :
            BulkListAnswered(t)
            => (outer' = ListItems(t) /\ pc' = "next")
       /\ (/\ pc = "next" /\ pc' = "upload"
           /\ args.mode = "translate" /\ CurSel.kind = "all"
           /\ cur.type # TYPE_ARTICLE)
          => (data' = Head(outer) /\ outer' = Tail(outer))]_vars

\* section 1 is uploaded although the exclude list holds the id 1
C12_Witness ==
    /\ args.mode = "translate"
    /\ args.sel[TYPE_SECTION].kind = "all"
    /\ lastCall.op = "upload"
    /\ lastCall.type = TYPE_SECTION
    /\ lastCall.id = 1
    /\ lastCall.code = 200
    /\ 1 \in exclude_articles

MappingValues(m) == {m[i][2] : i \in 1..Len(m)}

\* C13: for every mapping and every key L of it, get_zendesk_locale of
\* get_smartling_locale of L is L.
C13_LocaleRoundTrip ==
    (pc = "done" /\ cur.zd_locale \in MappingKeys(locale_mapping))
    => data = cur.zd_locale

\* C14: get_smartling_locale of a code that is not a key, and
\* get_zendesk_locale of a code that is not a value, raise ValueError and
\* return nothing.
C14_UnmappedLocaleRaises ==
    /\ (pc # "to_sl" /\ cur.zd_locale # ""
          /\ cur.zd_locale \notin MappingKeys(locale_mapping))
       => (err = PythonError("ValueError") /\ pc = "crash"
           /\ cur.sl_locale = "" /\ data = None)
    /\ (pc # "to_zd" /\ cur.zd_locale = ""
          /\ cur.sl_locale \notin MappingValues(locale_mapping))
       => (err = PythonError("ValueError") /\ pc = "crash" /\ data = None)
    /\ err # NoError
       => \/ cur.zd_locale # "" /\ cur.zd_locale \notin MappingKeys(locale_mapping)
          \/ cur.zd_locale = "" /\ cur.sl_locale \notin MappingValues(locale_mapping)

\* get_zendesk_locale has raised for a code that a non-empty mapping lacks
C14_Witness ==
    /\ locale_mapping # <<>>
    /\ cur.zd_locale = ""
    /\ cur.sl_locale = UnmappedSlLocale
    /\ pc = "crash"
    /\ err = PythonError("ValueError")

FirstPassDone == pc \in {"fix", "done"} /\ Len(driver.history) >= 1
SeqRange(q) == {q[i] : i \in 1..Len(q)}

\* The file name with the token '_en-us.<ext>' replaced by '_<locale>.<ext>'
TokenReplaced(name, locale) ==
    IF name.loc = ZD_SOURCE_LOCALE /\ name.ext # ""
    THEN [name EXCEPT !.loc = locale]
    ELSE name

\* C15: after fix_article_links with the attachment list, every img element
\* whose file name, with '_en-us.<ext>' replaced by '_<locale>.<ext>', is the
\* file name of an attachment has that attachment's content url as src;
\* every other img element is as it was and a warning names it; no error.
C15_ImageRelocalized ==
    (FirstPassDone /\ lastCall.code = 200)
    => /\ err = NoError
       /\ \A i \in 1..Len(data.body.elems) :
            data.body.elems[i].tag = "img" =>
               LET before == data.body.elems[i]
                   after == driver.history[1].elems[i]
                   attachments == zdAttachments[cur.id]
                   hits == MatchingAttachments(
                              TokenReplaced(before.url.last, cur.zd_locale), attachments)
               IN  IF hits # {}
                   THEN after.tag = "img"
                        /\ \E j \in hits : after.url = attachments[j].content_url
                   ELSE after = before
                        /\ (Len(driver.history) = 1 =>
                               ImageWarning(before, cur.zd_locale) \in SeqRange(warnings))

\* The href with every segment '/en-us/' replaced by '/<locale>/'
SegmentsReplaced(url, locale) ==
    [url EXCEPT !.dirs = [k \in 1..Len(url.dirs) |->
                            IF url.dirs[k] = ZD_SOURCE_LOCALE /\ (k > 1 \/ url.abs)
                            THEN locale
                            ELSE url.dirs[k]]]

\* C16: after fix_article_links with the attachment list, every a element
\* has its href with each segment '/en-us/' replaced by '/<locale>/' (an
\* href without such a segment is as it was), and every element that is
\* neither img nor a is as it was.
C16_AnchorRelocalized ==
    (FirstPassDone /\ lastCall.code = 200)
    => \A i \in 1..Len(data.body.elems) :
          LET before == data.body.elems[i]
              after == driver.history[1].elems[i]
          IN  /\ before.tag = "a" =>
                    after = [before EXCEPT !.url = SegmentsReplaced(before.url, cur.zd_locale)]
              /\ before.tag \notin {"a", "img"} => after = before

\* C17: fix_article_links applied to what it returned, for the same locale
\* and attachments, returns it unchanged.
C17_RelocalizerIdempotent ==
    \A n \in 2..Len(driver.history) :
        pc \in {"fix", "done"} => driver.history[n] = driver.history[n - 1]

OpensWithDiv(body) == body.top \in {"div", "divattr", "DIV"}

\* C18: when the body does not open with a div and the parser wraps it in
\* one, what fix_article_links returns does not open with a div either.
C18_WrapperIsStripped ==
    (FirstPassDone /\ lastCall.code = 200 /\ data.body.top = "multi")
    => ~OpensWithDiv(driver.history[1])

\* C19: when the listing of the attachments answers 404, the body of the
\* record is the downloaded body, no error is raised and the upsert
\* follows; when it fails with another status, that error ends the run and
\* no call of the upsert is issued.
C19_AttachmentLookupFailure ==
    [][(pc = "attachments" /\ ncalls' # ncalls)
       => /\ lastCall'.code = 404
             => (/\ translation'.body = data.body
                 /\ warnings' = <<>>
                 /\ err' = NoError
                 /\ pc' = "show")
          /\ lastCall'.code \notin {200, 404}
             => (/\ err' = ZendeskError("attachments", lastCall'.code)
                 /\ pc' = "exit"
                 /\ translation' = translation
                 /\ zdTrans' = zdTrans)]_vars

\* the article went away before its attachments were listed: the body with
\* the source-locale link is about to be upserted as it was downloaded
C19_Witness ==
    /\ Running
    /\ lastCall.op = "attachments"
    /\ lastCall.code = 404
    /\ pc = "show"
    /\ data.body = BodyAnchor
    /\ translation.body = BodyAnchor
    /\ err = NoError

\* C20: the id that get_completed_ids parses out of the uri of an item is
\* the id of the item, the parse never fails, and two items have the same
\* uri only if they have the same type and id.
C20_UriRoundTrip ==
    /\ pc \notin {"exit", "crash"}
    /\ pc = "done" =>
          /\ Len(scan.ids) = Len(outer)
          /\ \A i \in 1..Len(outer) : scan.ids[i] = outer[i].id
    /\ pc \in {"parse", "done"} =>
          \A i, j \in 1..Len(outer) : inner[i] = inner[j] => outer[i] = outer[j]

\* the ids 12 and 200109629 have come back out of the uris of an article
\* and of a section
C20_Witness ==
    /\ pc = "done"
    /\ outer = <<[type |-> TYPE_ARTICLE, id |-> 12], [type |-> TYPE_SECTION, id |-> 200109629]>>
    /\ inner[1] = <<"a", "r", "t", "i", "c", "l", "e", "_", "1", "2", ".", "j", "s", "o", "n">>
    /\ scan.ids = <<12, 200109629>>

\* C21: every id that the scanner yields for a listed file is the id whose
\* file name, for the scanned item type, is that file's uri; a uri of any
\* other form contributes no id (the scan fails instead).
C21_ScannerInvertsFileName ==
    pc = "done" =>
        /\ Len(scan.ids) = Len(inner)
        /\ \A k \in 1..Len(inner) :
              inner[k] = get_source_item_file_name(cur.type, scan.ids[k])

\* The positions of the listing that the requested pages have returned
PositionsReturned ==
    UNION {driver.history[k].first .. driver.history[k].last :
              k \in 1..Len(driver.history)}

\* C22: for every file count N that the listing reports, the scanner requests
\* the pages at offsets 0, 500, 1000, ..., their number P satisfies
\* P * 500 >= N, and every position of the listing is in a requested page.
C22_PagesCoverListing ==
    (pc = "done" /\ err = NoError) =>
        LET N == data.fileCount
            P == Len(driver.history)
        IN  /\ P = scan.num_loops
            /\ P * PageSize >= N
            /\ \A k \in 1..P : driver.history[k].offset = (k - 1) * PageSize
            /\ PositionsReturned = 1..N

\* a listing of more than one page, the last page partly filled, has been read
C22_Witness ==
    /\ pc = "done"
    /\ err = NoError
    /\ data = [fileCount |-> 2 * PageSize + 1]
    /\ Len(driver.history) = 3
    /\ driver.history[3].last = 2 * PageSize + 1

\* The translations in Zendesk before the run
StoredBefore(x) ==
    IF x[2] = 1 /\ x[3] = "fr" THEN OldTranslation(x[1], x[3]) ELSE None

\* The (id, locale) pairs of articles that a retrieval is asked for, as a
\* set: the ids times the locales of the command line, or for each locale
\* the filtered articles with a completed translation
PairsAsked ==
    LET sel == args.sel[TYPE_ARTICLE]
        locs == SeqToSet(args.locales)
    IN  CASE sel.kind = "none" -> {}
          [] sel.kind = "ids" -> SeqToSet(sel.ids) \X locs
          [] sel.kind = "all" ->
               {p \in ExpectedArticles \X locs :
                   slTrans[<<get_source_item_file_name(TYPE_ARTICLE, p[1]),
                             get_smartling_locale(p[2])>>] # None}

\* What the pairs asked for leave in Zendesk, whatever their order
StoredAfter(x) ==
    LET sl_locale == MappingGet(locale_mapping, x[3])
        doc == slTrans[<<get_source_item_file_name(TYPE_ARTICLE, x[2]), sl_locale>>]
    IN  IF /\ x[1] = TYPE_ARTICLE
           /\ \E p \in PairsAsked :
                 /\ p[1] = x[2]
                 /\ get_zendesk_locale(get_smartling_locale(p[2])) = x[3]
           /\ doc # None
        THEN ArticleTranslation(x[3], doc.title,
                                FixBody(doc.body, x[3], TRUE, zdAttachments[x[2]]),
                                doc.draft)
        ELSE StoredBefore(x)

ProgramStep == envSteps' = envSteps

\* C24: no rollback.  A step of the program changes the files in Smartling
\* only by storing the file of a successful upload, and the translations in
\* Zendesk only by storing the record of a successful update or create; the
\* step on which the run fails changes neither store, and no call follows
\* it.  So what the earlier items of the batch wrote is still there when the
\* run has ended.
C24_NoRollback ==
    [][ProgramStep =>
        /\ slTrans' = slTrans /\ zdItems' = zdItems /\ zdAttachments' = zdAttachments
        /\ slFiles' # slFiles =>
              /\ lastCall'.op = "upload" /\ lastCall'.code = 200
              /\ ncalls' = ncalls + 1
              /\ slFiles' = [slFiles EXCEPT
                   ![get_source_item_file_name(lastCall'.type, lastCall'.id)] = data]
        /\ zdTrans' # zdTrans =>
              /\ lastCall'.op \in {"translation_update", "translation_create"}
              /\ lastCall'.code = 200
              /\ ncalls' = ncalls + 1
              /\ zdTrans' = [zdTrans EXCEPT
                   ![<<lastCall'.type, lastCall'.id, lastCall'.locale>>] = translation]
        /\ pc' \in {"exit", "crash"} =>
              /\ slFiles' = slFiles
              /\ zdTrans' = zdTrans
        /\ pc \in {"exit", "crash"} => ncalls' = ncalls
      ]_vars

\* the run has failed on the second article, and the file uploaded for the
\* first one (the draft) is in Smartling
C24_Witness ==
    /\ pc = "exit"
    /\ args.mode = "translate"
    /\ lastCall.type = TYPE_ARTICLE
    /\ lastCall.id # MaxId
    /\ slFiles[get_source_item_file_name(TYPE_ARTICLE, MaxId)].draft

\* the same for a retrieval: the translation stored for the first article
\* is in Zendesk when the run has failed on a later one
C24_WitnessPull ==
    /\ pc = "exit"
    /\ args.mode = "retrieve"
    /\ lastCall.id # MaxId
    /\ zdTrans[<<TYPE_ARTICLE, MaxId, "fr">>] # None

\* The command lines that the program is to reject
InvalidCommandLine(cmd) ==
    \/ cmd.translate = cmd.retrieve
    \/ cmd.translate /\ cmd.locales # <<>>
    \/ cmd.retrieve /\ cmd.locales = <<>>
    \/ cmd.locales \notin {<<>>, <<"all">>}
         /\ \E i \in 1..Len(cmd.locales) : cmd.locales[i] \notin MappingKeys(locale_mapping)
    \/ cmd.retrievaltype \notin {"published", "pending", "pseudo"}
    \/ cmd.loglevel \notin {"debug", "info", "warning", "error", "critical"}

\* C25: after an invalid command line the process has ended with a message,
\* with a status other than success, and without any remote call.
C25_InvalidCommandLineFails ==
    (pc # "args" /\ InvalidCommandLine(data)) =>
        /\ pc = "usage"
        /\ warnings # <<>>
        /\ ncalls = 0
        /\ ExitStatus # 0

\* what does hold: the message, the end of the run, and no call
C25_RejectedWithoutCalls ==
    (pc # "args" /\ InvalidCommandLine(data)) =>
        /\ pc = "usage"
        /\ warnings # <<>>
        /\ ncalls = 0

\* C26: the race of a bulk pull.  From the download of an article to its
\* upsert the program calls Zendesk only: whatever document the download
\* returned, fully translated or not, is taken on to the attachment fetch,
\* and its title is what a successful update or create stores.  So a new
\* revision uploaded by another run after the listings and before the
\* download ends as a translation that is not fully translated.
C26_NoCompletionRecheck ==
    [][ProgramStep =>
        /\ (/\ pc = "download"
            /\ cur.type = TYPE_ARTICLE
            /\ lastCall'.code = 200
            /\ data' # None) =>
              /\ data' = slTrans[<<get_source_item_file_name(cur.type, cur.id),
                                   cur.sl_locale>>]
              /\ pc' = "attachments"
        /\ (pc \in {"attachments", "show", "update", "create"} /\ ncalls' # ncalls) =>
              lastCall'.sys = "zd"
        /\ (pc \in {"update", "create"} /\ zdTrans' # zdTrans) =>
              zdTrans'[<<lastCall'.type, lastCall'.id, lastCall'.locale>>].title
                  = data.title
      ]_vars

\* a bulk pull has stored, for an article that the scanner had listed as
\* completed, a translation whose title is in the source language
C26_Witness ==
    /\ args.mode = "retrieve"
    /\ args.sel[TYPE_ARTICLE].kind = "all"
    /\ envSteps = 1
    /\ lastCall.op \in {"translation_update", "translation_create"}
    /\ lastCall.code = 200
    /\ lastCall.id \in SeqToSet(scan.ids)
    /\ lastCall.id \in filtered
    /\ zdTrans[LastKey] # None
    /\ zdTrans[LastKey].title = Text("title", lastCall.id, ZD_SOURCE_LOCALE)
    /\ ~FullyTranslated(slTrans[<<LastUri, cur.sl_locale>>])

\* A step of a bulk pull of the current item type
BulkPullStep ==
    /\ ProgramStep
    /\ args.mode = "retrieve"
    /\ pc \notin {"phase", "done", "exit", "crash"}
    /\ CurSel.kind = "all"

\* The ids of the type that the filters of a bulk transfer keep
FilteredListing(t) ==
    IF t = TYPE_ARTICLE THEN ExpectedArticles
    ELSE {i \in Ids : zdItems[<<t, i>>] # "gone"}

\* The ids of the type with a complete translation for the locale
CompletedIds(t, sl_locale) ==
    {i \in Ids : FullyTranslated(slTrans[<<get_source_item_file_name(t, i), sl_locale>>])}

\* C27: in a bulk pull the ids kept from the Zendesk listing are those of
\* the filter of a bulk push; the scanner's result for a locale is the ids
\* completed for the mapped locale; of these, in turn, an id in the filtered
\* listing is downloaded and any other id is passed over without a call; and
\* every call about one item (download, attachment fetch, upsert) is about
\* an id that is in both.
C27_BulkPullSelection ==
    [][BulkPullStep =>
        /\ (pc = "list_source" /\ lastCall'.code = 200) =>
              filtered' = FilteredListing(cur.type)
        /\ (pc = "list_page" /\ pc' = "next") =>
              /\ SeqToSet(inner') = CompletedIds(cur.type, cur.sl_locale)
              /\ scan'.ids = inner'
        /\ (pc = "next" /\ inner # <<>>) =>
              IF Head(inner) \in filtered
              THEN pc' = "download" /\ cur'.id = Head(inner) /\ inner' = Tail(inner)
              ELSE pc' = "next" /\ ncalls' = ncalls /\ inner' = Tail(inner)
        /\ (ncalls' # ncalls /\ lastCall'.op \notin {"item_list", "list"}) =>
              /\ lastCall'.id \in filtered
              /\ lastCall'.id \in SeqToSet(scan.ids)
      ]_vars

\* a bulk pull of articles has stored a translation, and an article that is
\* completed in Smartling but not in the filtered listing was passed over
C27_Witness ==
    /\ args.mode = "retrieve"
    /\ args.sel[TYPE_ARTICLE].kind = "all"
    /\ pc = "done"
    /\ err = NoError
    /\ lastCall.op \in {"translation_update", "translation_create"}
    /\ lastCall.code = 200
    /\ SeqToSet(scan.ids) \ filtered # {}
    /\ \A x \in DOMAIN zdTrans :
          (x[1] = TYPE_ARTICLE /\ x[2] \notin filtered) => zdTrans[x] = StoredBefore(x)

\* C28: a 404 of the update call, after a show call that succeeded, is
\* handled like a 404 of the show call: no error is raised and the create
\* call is next; a 404 of that create call ends the upsert without an error
\* and with no translation stored, and a success stores the record.
C28_UpdateNotFoundFallsBack ==
    [][(ProgramStep /\ ncalls' # ncalls) =>
        /\ (pc = "update" /\ lastCall'.code = 404) =>
              /\ ulog = <<Entry("translation_show", 200)>>
              /\ pc' = "create"
              /\ err' = NoError
              /\ zdTrans' = zdTrans
        /\ (/\ pc = "create"
            /\ ulog = <<Entry("translation_show", 200), Entry("translation_update", 404)>>
            /\ lastCall'.code = 404) =>
              /\ pc' = "next"
              /\ err' = NoError
              /\ zdTrans'[UpsertKey] = None
        /\ (/\ pc = "create"
            /\ ulog = <<Entry("translation_show", 200), Entry("translation_update", 404)>>
            /\ lastCall'.code = 200) =>
              /\ pc' = "next"
              /\ err' = NoError
              /\ zdTrans'[UpsertKey] = translation
      ]_vars

\* the item was deleted between the show call and the update call
C28_Witness ==
    /\ ulog = <<Entry("translation_show", 200), Entry("translation_update", 404),
                Entry("translation_create", 404)>>
    /\ pc = "next"
    /\ err = NoError
    /\ zdTrans[UpsertKey] = None

\* The locale for which the pull in progress was requested: the entry of
\* --locales that the loop took last
RequestedLocale ==
    LET left == IF CurSel.kind = "ids" THEN inner ELSE outer
    IN  args.locales[Len(args.locales) - Len(left)]

\* The first source locale, in the mapping's order, with this translation
\* locale
FirstSourceLocaleFor(sl_locale) ==
    LET i == CHOOSE i \in 1..Len(locale_mapping) :
                 /\ locale_mapping[i][2] = sl_locale
                 /\ \A j \in 1..(i - 1) : locale_mapping[j][2] # sl_locale
    IN  locale_mapping[i][1]

PairwiseDistinctValues ==
    \A i, j \in 1..Len(locale_mapping) :
        locale_mapping[i][2] = locale_mapping[j][2] => i = j

\* C29: in a pull requested for the source locale L, the locale of the
\* record and of the show, update and create calls is the first source
\* locale, in the mapping's order, whose translation locale is mapping[L];
\* it is L when the values of the mapping are pairwise distinct.
C29_LocaleOfTheUpsert ==
    [][(/\ ProgramStep
        /\ args.mode = "retrieve"
        /\ pc \in {"show", "update", "create"}
        /\ ncalls' # ncalls) =>
          LET L == RequestedLocale
              used == FirstSourceLocaleFor(MappingGet(locale_mapping, L))
          IN  /\ cur.sl_locale = MappingGet(locale_mapping, L)
              /\ lastCall'.locale = used
              /\ translation.locale = used
              /\ PairwiseDistinctValues => used = L
      ]_vars

\* two source locales share a translation locale, and a translation
\* requested for the second one alone has been stored under the first
C29_Witness ==
    /\ args.mode = "retrieve"
    /\ ~PairwiseDistinctValues
    /\ lastCall.op \in {"translation_update", "translation_create"}
    /\ lastCall.code = 200
    /\ lastCall.locale \notin SeqToSet(args.locales)
    /\ zdTrans[LastKey] # None
    /\ zdTrans[LastKey].locale = lastCall.locale

\* The next step of the pipeline of one article after a call that did not
\* find the article
AfterNotFound(at) ==
    CASE at = "attachments" -> "show"
      [] at = "show" -> "create"
      [] at = "update" -> "create"
      [] at = "create" -> "next"

\* C30: when the article of a pull has been deleted in Zendesk and its
\* translation has been downloaded, every Zendesk call of the pull that the
\* service answers (the attachment fetch, the show call, the create call)
\* returns 404, none of them raises an error, no translation is stored, and
\* after the create call the batch is where it was, at its next pair.
C30_DeletedArticleIsSkipped ==
    [][(/\ ProgramStep
        /\ args.mode = "retrieve"
        /\ cur.type = TYPE_ARTICLE
        /\ pc \in {"attachments", "show", "update", "create"}
        /\ zdItems[<<TYPE_ARTICLE, cur.id>>] = "gone"
        /\ ncalls' # ncalls
        /\ lastCall'.code \notin ServerErrors) =>
          /\ lastCall'.code = 404
          /\ err' = NoError
          /\ pc' = AfterNotFound(pc)
          /\ pc = "attachments" => ulog' = <<>>
          /\ pc = "show" => ulog' = <<Entry("translation_show", 404)>>
          /\ \A loc \in ZdLocaleCodes : zdTrans'[<<TYPE_ARTICLE, cur.id, loc>>] = None
          /\ outer' = outer /\ inner' = inner /\ phase' = phase
      ]_vars

\* the draft article was deleted before the attachment fetch: its images
\* were left as downloaded, show and create returned 404, and the batch is
\* at its next pair
C30_Witness ==
    /\ args.mode = "retrieve"
    /\ pc = "next"
    /\ err = NoError
    /\ lastCall.type = TYPE_ARTICLE
    /\ lastCall.id = MaxId
    /\ zdItems[<<TYPE_ARTICLE, MaxId>>] = "gone"
    /\ ulog = <<Entry("translation_show", 404), Entry("translation_create", 404)>>
    /\ translation.body = FixBody(data.body, lastCall.locale, FALSE, zdAttachments[MaxId])
    /\ translation.body # FixBody(data.body, lastCall.locale, TRUE, zdAttachments[MaxId])
    /\ zdTrans[LastKey] = None
    /\ inner # <<>> \/ outer # <<>>

\* C31: in retrieve mode every download of an item type given as 'all' asks
\* for the retrieval type 'published', whatever --retrievaltype is, and
\* every download of an item type given as a list of ids asks for the type
\* of --retrievaltype.
C31_BulkRetrievalIsPublished ==
    (args.mode = "retrieve" /\ lastCall.op = "get") =>
        lastCall.arg = IF args.sel[lastCall.type].kind = "all"
                       THEN "published"
                       ELSE args.retrievaltype

\* 'pending' was selected, and a bulk pull has downloaded a translation
\* as 'published'
C31_Witness ==
    /\ args.mode = "retrieve"
    /\ args.retrievaltype = "pending"
    /\ lastCall.op = "get"
    /\ lastCall.code = 200
    /\ args.sel[lastCall.type].kind = "all"
    /\ lastCall.arg = "published"

\* 'pending' was selected, and a pull of a list of ids has downloaded a
\* translation as 'pending'
C31_WitnessIds ==
    /\ args.mode = "retrieve"
    /\ args.retrievaltype = "pending"
    /\ lastCall.op = "get"
    /\ lastCall.code = 200
    /\ args.sel[lastCall.type].kind = "ids"
    /\ lastCall.arg = "pending"

=============================================================================
